---------------------------- MODULE Spec2Model ----------------------------
(***************************************************************************)
(* A model of the MCSManager chat plugin (src/main.py): the instance       *)
(* directory (self.instance_data) and its two refresh paths, the resolver, *)
(* the cooldown manager and the start/stop/cmd/log command handlers.       *)
(*                                                                         *)
(* Strings are sequences of one-character strings, so that isdigit, strip, *)
(* lower, the UUID test and the sort order are computed as Python computes *)
(* them.  A display name is a record [t, v]: t = "str" for a JSON string   *)
(* nickname, t = "num" for a JSON number nickname (the panel's payload is  *)
(* duck-typed, see spec section 9), v the characters.                      *)
(*                                                                         *)
(* Handlers are coroutines: one action is the code between two suspension  *)
(* points (an await of a panel request, an asyncio.sleep, or a yield of a  *)
(* message to the host).                                                   *)
(***************************************************************************)
EXTENDS Integers, Sequences, FiniteSets, TLC

VARIABLES
    instance_data,  \* self.instance_data: instances, name_to_id, uuid_to_id, ambiguous_names
    cooldowns,      \* self.cooldown_manager.cooldowns: instance id -> time of last success
    now,            \* time.time(), in whole seconds
    config,         \* self.config
    panel,          \* what the remote panel currently holds (nodes and their instances)
    hs,             \* per coroutine: position and local variables
    lastBuild,      \* history: which coroutine last rebuilt the cache, and whether the rebuild raised
    lastSuccess     \* history: instance id -> time of the last start/stop answered with success

vars == <<instance_data, cooldowns, now, config, panel, hs, lastBuild, lastSuccess>>

-----------------------------------------------------------------------------
(* Bounds of the model *)

MaxInst == 3        \* instances the panel may hold
MaxBatch == 3       \* identifiers in one start/stop command
MaxElapsed == 12    \* seconds the clock may advance
MaxCommands == 2    \* commands one handler slot may take
StartTime == 20     \* time.time() when the plugin is constructed
ConcElapsed == 4    \* seconds the clock may advance while handlers interleave

-----------------------------------------------------------------------------
(* Characters and strings *)

Digits == {"0", "1", "2", "3", "4", "5", "6", "7", "8", "9"}
HexChars == Digits \cup {"a", "b", "c", "d", "e", "f", "A", "B", "C", "D", "E", "F"}
Whitespace == {" "}
\* U+00B2 SUPERSCRIPT TWO, one character: str.isdigit() accepts it, int() does not
SuperTwo == "sup2"

\* the characters the model uses, in code point order
CharOrder == <<" ", "-", "0", "1", "2", "3", "4", "5", "6", "7", "8", "9",
               "A", "B", "C", "D", "E", "F", "L", "a", "b", "c", "d", "e", "f", "l", "x",
               SuperTwo>>

Code(c) == CHOOSE i \in 1..Len(CharOrder) : CharOrder[i] = c

LowerChar(c) ==
    CASE c = "A" -> "a" [] c = "B" -> "b" [] c = "C" -> "c" [] c = "D" -> "d"
      [] c = "E" -> "e" [] c = "F" -> "f" [] c = "L" -> "l" [] OTHER -> c

Lower(s) == [i \in 1..Len(s) |-> LowerChar(s[i])]

Rep(c, n) == [i \in 1..n |-> c]

\* str.isdigit(): non-empty and every character a digit; the digits of Unicode
\* are the decimal digits and characters such as the superscript digits
IsDigit(s) == Len(s) > 0 /\ \A i \in 1..Len(s) : s[i] \in Digits \cup {SuperTwo}

\* int(s) raises ValueError: a character of s is not a decimal digit
IntRaises(s) == \E i \in 1..Len(s) : s[i] \notin Digits

RECURSIVE LStrip(_)
LStrip(s) == IF s # <<>> /\ Head(s) \in Whitespace THEN LStrip(Tail(s)) ELSE s

RECURSIVE RStrip(_)
RStrip(s) ==
    IF s # <<>> /\ s[Len(s)] \in Whitespace THEN RStrip(SubSeq(s, 1, Len(s) - 1)) ELSE s

\* str.strip()
Strip(s) == RStrip(LStrip(s))

\* `sub in s` for strings
Contains(s, sub) ==
    \E i \in 0..(Len(s) - Len(sub)) : SubSeq(s, i + 1, i + Len(sub)) = sub

\* s < t for strings: lexicographic by code point
RECURSIVE StrLess(_, _)
StrLess(s, t) ==
    IF t = <<>> THEN FALSE
    ELSE IF s = <<>> THEN TRUE
    ELSE IF Head(s) = Head(t) THEN StrLess(Tail(s), Tail(t))
    ELSE Code(Head(s)) < Code(Head(t))

DigitVal(c) == Code(c) - Code("0")

RECURSIVE LStripZeros(_)
LStripZeros(s) == IF s # <<>> /\ Head(s) = "0" THEN LStripZeros(Tail(s)) ELSE s

RECURSIVE DecVal(_)
DecVal(s) == IF s = <<>> THEN 0 ELSE 10 * DecVal(SubSeq(s, 1, Len(s) - 1)) + DigitVal(s[Len(s)])

\* int(s) for a digit string.  Python integers are unbounded; a value of more
\* than four digits is only ever compared with a list length, so it is kept as
\* Huge, which exceeds every list length.
Huge == 10000
ToInt(s) == LET z == LStripZeros(s) IN IF Len(z) > 4 THEN Huge ELSE DecVal(z)

-----------------------------------------------------------------------------
(* Display names *)

Str(s) == [t |-> "str", v |-> s]
Num(s) == [t |-> "num", v |-> s]

\* a < b between two names of the same type (the sort key of line 308)
NameLess(a, b) ==
    IF a.t = "num" THEN ToInt(a.v) < ToInt(b.v) ELSE StrLess(a.v, b.v)

RECURSIVE IntToStr(_)
\* str(n) for n >= 0
IntToStr(n) ==
    IF n < 10 THEN <<CharOrder[Code("0") + n]>>
    ELSE IntToStr(n \div 10) \o <<CharOrder[Code("0") + (n % 10)]>>

-----------------------------------------------------------------------------
(* Configuration and the remote panel *)

Nodes == {"nA", "nB"}

\* GET /overview lists the daemons in this order (not alphabetical)
OverviewOrder == <<"nB", "nA">>

NameAl == Str(<<"A", "l">>)
NameSpAl == Str(<<" ", "A", "l">>)
Name2 == Str(<<"2">>)
Name5 == Num(<<"5">>)
Names == {NameAl, NameSpAl, Name2, Name5}

\* instanceUuid of the i-th instance of the panel: 32 hexadecimal characters,
\* distinct per instance; the second one happens to hold decimal digits only
UuidChars == <<"a", "1", "b", "c", "d", "e", "f">>
UuidLen == 32
UuidOf(i) == Rep(UuidChars[i], UuidLen)

StatusOf(i) == IF i % 2 = 1 THEN 3 ELSE 0
\* a "status" that is a JSON array: the panel's own codes are -1..3, and this
\* number stands for the value [] that json() turns into a Python list
EmptyArray == 100

Absent == [node |-> "none", name |-> NameAl]
Placements == {Absent} \cup [node : Nodes, name : Names]

KeywordLists == {<<>>, <<<<"a", "L">>>>}
\* log_size: set = FALSE when the option is absent (config.get gives None)
LogSize(n) == [set |-> TRUE, v |-> n]
Configs == [filtered_nodes : {{}, {"nA"}},
            filtered_instance_keywords : KeywordLists,
            batch_interval : {2},
            log_size : {LogSize(2)}]

\* the "data" list of GET /service/remote_service_instances for daemon n
NodeInstances(pn, n) ==
    LET ids == [i \in 1..MaxInst |-> i]
        On(i) == pn[i].node = n
        sel == SelectSeq(ids, On)
    IN [j \in 1..Len(sel) |->
            [nickname |-> pn[sel[j]].name, instanceUuid |-> UuidOf(sel[j]),
             status |-> IF "status" \in DOMAIN pn[sel[j]] THEN pn[sel[j]].status
                        ELSE StatusOf(sel[j])]]

-----------------------------------------------------------------------------
(* Keyword allow-list and identifier classification *)

\* _should_filter_instance raises AttributeError: a non-string name has no lower()
FilterRaises(cfg, name) ==
    cfg.filtered_instance_keywords # <<>> /\ name.t # "str"

\* _should_filter_instance: TRUE = drop the instance
ShouldFilterInstance(cfg, name) ==
    LET kws == cfg.filtered_instance_keywords IN
    IF kws = <<>> THEN FALSE
    ELSE ~ \E i \in 1..Len(kws) :
            kws[i] # <<>> /\ Contains(Lower(name.v), Lower(kws[i]))

IsUuidFormat(s) ==
    LET NotHyphen(c) == c # "-"
        cleaned == SelectSeq(s, NotHyphen)
    IN Len(cleaned) = UuidLen /\ \A i \in 1..Len(cleaned) : cleaned[i] \in HexChars

DetectIdentifierType(s) ==
    IF IsDigit(s) THEN "number"
    ELSE IF IsUuidFormat(s) THEN "uuid"
    ELSE "name"

-----------------------------------------------------------------------------
(* The directory: rebuild *)

EmptyMap == <<>>

EmptyDirectory ==
    [instances |-> <<>>, name_to_id |-> EmptyMap, uuid_to_id |-> EmptyMap,
     ambiguous_names |-> {}]

RECURSIVE Concat(_, _, _)
\* all_instances: the lists of instances_by_node, in dict order
Concat(order, byNode, k) ==
    IF k > Len(order) THEN <<>>
    ELSE byNode[order[k]] \o Concat(order, byNode, k + 1)

NameCount(all, name) == Cardinality({i \in 1..Len(all) : all[i].name = name})

\* a detection that needs three carriers of a name
AmbiguousNamesOverTwo(all) ==
    {all[i].name : i \in {j \in 1..Len(all) : NameCount(all, all[j].name) > 2}}

AmbiguousNames(all) ==
    {all[i].name : i \in {j \in 1..Len(all) : NameCount(all, all[j].name) > 1}}

\* list.sort compares a str with an int: TypeError
SortRaises(insts) ==
    \E i, j \in 1..Len(insts) : insts[i].name.t # insts[j].name.t

RECURSIVE InsertByName(_, _)
InsertByName(sorted, x) ==
    IF sorted = <<>> THEN <<x>>
    ELSE IF NameLess(x.name, Head(sorted).name) THEN <<x>> \o sorted
    ELSE <<Head(sorted)>> \o InsertByName(Tail(sorted), x)

\* a node's instances left in the order the panel listed them
ArrivalOrder(insts) == insts

RECURSIVE SortByName(_)
\* instances.sort(key=lambda x: x['name']): stable, ascending
SortByName(insts) ==
    IF insts = <<>> THEN <<>>
    ELSE InsertByName(SortByName(SubSeq(insts, 1, Len(insts) - 1)), insts[Len(insts)])

RECURSIVE AddInstancesAllNames(_, _, _, _)
\* a rebuild that enters every name in name_to_id, shared or not
AddInstancesAllNames(dir, node, insts, amb) ==
    IF insts = <<>> THEN dir
    ELSE
        LET inst == Head(insts)
            rec == [index |-> IntToStr(Len(dir.instances) + 1), name |-> inst.name,
                    uuid |-> inst.uuid, daemon_id |-> node, status |-> inst.status]
            d1 == [dir EXCEPT
                     !.instances = Append(@, rec),
                     !.uuid_to_id = (inst.uuid :> <<node, inst.uuid>>) @@ @,
                     !.name_to_id = (inst.name :> <<node, inst.uuid>>) @@ @]
        IN AddInstancesAllNames(d1, node, Tail(insts), amb)

RECURSIVE AddInstancesFromZero(_, _, _, _)
\* a rebuild that numbers the records from 0
AddInstancesFromZero(dir, node, insts, amb) ==
    IF insts = <<>> THEN dir
    ELSE
        LET inst == Head(insts)
            rec == [index |-> IntToStr(Len(dir.instances)), name |-> inst.name,
                    uuid |-> inst.uuid, daemon_id |-> node, status |-> inst.status]
            d1 == [dir EXCEPT
                     !.instances = Append(@, rec),
                     !.uuid_to_id = (inst.uuid :> <<node, inst.uuid>>) @@ @,
                     !.name_to_id = IF inst.name \in amb THEN @
                                    ELSE (inst.name :> <<node, inst.uuid>>) @@ @]
        IN AddInstancesFromZero(d1, node, Tail(insts), amb)

RECURSIVE AddInstancesOneNode(_, _, _, _)
\* a rebuild whose uuid_to_id files every instance under the node of the first record
AddInstancesOneNode(dir, node, insts, amb) ==
    IF insts = <<>> THEN dir
    ELSE
        LET inst == Head(insts)
            rec == [index |-> IntToStr(Len(dir.instances) + 1), name |-> inst.name,
                    uuid |-> inst.uuid, daemon_id |-> node, status |-> inst.status]
            first == IF dir.instances = <<>> THEN node ELSE dir.instances[1].daemon_id
            d1 == [dir EXCEPT
                     !.instances = Append(@, rec),
                     !.uuid_to_id = (inst.uuid :> <<first, inst.uuid>>) @@ @,
                     !.name_to_id = IF inst.name \in amb THEN @
                                    ELSE (inst.name :> <<node, inst.uuid>>) @@ @]
        IN AddInstancesOneNode(d1, node, Tail(insts), amb)

RECURSIVE AddInstances(_, _, _, _)
\* the inner loop of the rebuild: one cache record per instance of a node
AddInstances(dir, node, insts, amb) ==
    IF insts = <<>> THEN dir
    ELSE
        LET inst == Head(insts)
            rec == [index |-> IntToStr(Len(dir.instances) + 1), name |-> inst.name,
                    uuid |-> inst.uuid, daemon_id |-> node, status |-> inst.status]
            d1 == [dir EXCEPT
                     !.instances = Append(@, rec),
                     !.uuid_to_id = (inst.uuid :> <<node, inst.uuid>>) @@ @,
                     !.name_to_id = IF inst.name \in amb THEN @
                                    ELSE (inst.name :> <<node, inst.uuid>>) @@ @]
        IN AddInstances(d1, node, Tail(insts), amb)

RECURSIVE BuildNodes(_, _, _, _, _)
\* the outer loop of the rebuild; stops where the sort raises
BuildNodes(dir, order, byNode, amb, k) ==
    IF k > Len(order) THEN [dir |-> dir, raised |-> FALSE]
    ELSE LET insts == byNode[order[k]] IN
         IF insts = <<>> THEN BuildNodes(dir, order, byNode, amb, k + 1)
         ELSE IF SortRaises(insts) THEN [dir |-> dir, raised |-> TRUE]
         ELSE BuildNodes(AddInstances(dir, order[k], SortByName(insts), amb),
                         order, byNode, amb, k + 1)

\* a rebuild that keeps the records of the cache and adds the new ones
RebuildCacheAppending(order, byNode) ==
    LET amb == AmbiguousNames(Concat(order, byNode, 1))
        kept == [EmptyDirectory EXCEPT !.ambiguous_names = amb,
                                       !.instances = instance_data.instances]
    IN BuildNodes(kept, order, byNode, amb, 1)

\* steps 2-4 of the refresh: the fields are cleared, then filled record by record
RebuildCache(order, byNode) ==
    LET amb == AmbiguousNames(Concat(order, byNode, 1))
        cleared == [EmptyDirectory EXCEPT !.ambiguous_names = amb]
    IN BuildNodes(cleared, order, byNode, amb, 1)

\* status_map.get(instance['status'], ...): a list is not hashable, TypeError
StatusMapRaises(status) == status = EmptyArray

\* the rebuild inside mcsm_list: the same clearing, sorting and records, with
\* the status icon looked up before each record is stored, so that the loop
\* is left before the first record whose status cannot be looked up
ListRebuildCache(order, byNode) ==
    LET b == RebuildCache(order, byNode)
        recs == b.dir.instances
        bad == {i \in 1..Len(recs) : StatusMapRaises(recs[i].status)}
    IN IF bad = {} THEN b
       ELSE LET first == CHOOSE i \in bad : \A j \in bad : i <= j
                stored == SubSeq(recs, 1, first - 1)
                uuids == {stored[i].uuid : i \in 1..Len(stored)}
                names == {stored[i].name : i \in 1..Len(stored)} \cap DOMAIN b.dir.name_to_id
            IN [dir |-> [instances |-> stored,
                         name_to_id |-> IF names = {} THEN EmptyMap
                                        ELSE [n \in names |-> b.dir.name_to_id[n]],
                         uuid_to_id |-> IF uuids = {} THEN EmptyMap
                                        ELSE [u \in uuids |-> b.dir.uuid_to_id[u]],
                         ambiguous_names |-> b.dir.ambiguous_names],
                raised |-> TRUE]

-----------------------------------------------------------------------------
(* The resolver *)

None == <<>>
Raised == <<"raise">>

\* the first cache record with this uuid, 0 if there is none
FirstWithUuid(dir, uuid) ==
    LET hits == {i \in 1..Len(dir.instances) : dir.instances[i].uuid = uuid}
    IN IF hits = {} THEN 0 ELSE CHOOSE i \in hits : \A j \in hits : i <= j

\* the allow-list re-check of the resolver on a cache name
Recheck(cfg, name, result) ==
    IF FilterRaises(cfg, name) THEN Raised
    ELSE IF ShouldFilterInstance(cfg, name) THEN None
    ELSE result

\* _get_instance_by_identifier: None, or (daemon_id, uuid)
GetInstanceByIdentifier(dir, cfg, raw) ==
    LET identifier == Strip(raw) IN
    IF IsDigit(identifier) THEN
        LET index == ToInt(identifier) IN
        IF IntRaises(identifier) THEN Raised
        ELSE IF 0 < index /\ index <= Len(dir.instances)
        THEN LET rec == dir.instances[index]
             IN Recheck(cfg, rec.name, <<rec.daemon_id, rec.uuid>>)
        ELSE None
    ELSE IF IsUuidFormat(identifier) THEN
        IF identifier \in DOMAIN dir.uuid_to_id
        THEN LET pair == dir.uuid_to_id[identifier]
                 i == FirstWithUuid(dir, pair[2])
             IN IF i = 0 THEN pair ELSE Recheck(cfg, dir.instances[i].name, pair)
        ELSE None
    ELSE IF Str(identifier) \in dir.ambiguous_names THEN None
    ELSE IF Str(identifier) \in DOMAIN dir.name_to_id
         THEN Recheck(cfg, Str(identifier), dir.name_to_id[Str(identifier)])
    ELSE None

-----------------------------------------------------------------------------
(* Coroutines.  hs[0] is the refresh task created by __init__; the others   *)
(* are command handlers.                                                    *)

IdleH ==
    [pc |-> "idle", cmd |-> "none",
     n |-> 0,   \* commands taken so far
     \* locals of the refresh: nodes, loop position, instances_by_node (keys in order)
     nodes |-> <<>>, k |-> 0, order |-> <<>>, byNode |-> EmptyMap, ret |-> "none",
     \* locals of start/stop/cmd/log
     op |-> "none", identifiers |-> <<>>, ids |-> None, name |-> None, instances |-> <<>>, failed |-> <<>>,
     idx |-> 0, success_count |-> 0, fail_count |-> 0, fail_details |-> <<>>,
     result_messages |-> <<>>, wake |-> 0,
     \* history: what the coroutine did since the command began, and in its last step
     trace |-> <<>>, step |-> <<>>]

\* history of the rebuilds: whether one happened, which coroutine ran the last
\* one, whether it raised, the answers it had heard, and whether the rebuild
\* before it had heard the same
NoBuild == [done |-> FALSE, by |-> 0, raised |-> FALSE, heard |-> <<>>, same |-> FALSE]

IsResponse(ev) == ev.e = "response"

Request(endpoint, params) == [e |-> "request", endpoint |-> endpoint, params |-> params]
Response(ok) == [e |-> "response", ok |-> ok]
Answer(resp) == [e |-> "response", ok |-> resp.status = 200, resp |-> resp]
Emit(msg) == [e |-> "emit", msg |-> msg]
Msg(kind) == [kind |-> kind]

\* the coroutine ran up to its next suspension point and did these things
Did(h, events) == [h EXCEPT !.trace = @ \o events, !.step = events]

IsEmit(ev) == ev.e = "emit"
IsRequest(ev) == ev.e = "request"
Emitted(h) == SelectSeq(h.trace, IsEmit)
Requests(h) == SelectSeq(h.trace, IsRequest)

Free(p) == hs[p].pc = "idle" /\ hs[p].n < MaxCommands

\* the locals of a handler that takes its next command
Fresh(p) == [IdleH EXCEPT !.n = hs[p].n + 1]

\* the handler's generator is exhausted (or its exception has left it): the
\* host drops it and takes the next command
Return(p) ==
    /\ p # 0
    /\ hs[p].pc \in {"done", "crashed"}
    /\ hs' = [hs EXCEPT ![p] = [IdleH EXCEPT !.n = hs[p].n]]
    /\ UNCHANGED <<instance_data, cooldowns, now, config, panel, lastBuild, lastSuccess>>

\* the first node after position k that is not in filtered_nodes, 0 if none
NextNode(nodes, k) ==
    LET rest == {j \in (k + 1)..Len(nodes) : nodes[j] \notin config.filtered_nodes}
    IN IF rest = {} THEN 0 ELSE CHOOSE j \in rest : \A i \in rest : j <= i

\* the loop over one node's instances (lines 263-279): the kept instances, or
\* the exception of the allow-list test
CollectInstances(cfg, node, data) ==
    LET Keep(inst) == ~ ShouldFilterInstance(cfg, inst.nickname)
        kept == SelectSeq(data, Keep)
    IN [raised |-> \E i \in 1..Len(data) : FilterRaises(cfg, data[i].nickname),
        list |-> [i \in 1..Len(kept) |->
                    [name |-> kept[i].nickname, uuid |-> kept[i].instanceUuid,
                     daemon_id |-> node, status |-> kept[i].status]]]

\* an exception inside the refresh: the task catches it and returns False,
\* the list command lets it out of the handler
RefreshRaised(h, events) ==
    IF h.cmd = "refresh" THEN [Did(h, events) EXCEPT !.pc = "done", !.ret = "False"]
    ELSE [Did(h, events) EXCEPT !.pc = "crashed"]

\* after the last node: rebuild the cache and finish
Finalize(p, h, events) ==
    LET b == IF h.cmd = "list" THEN ListRebuildCache(h.order, h.byNode)
             ELSE RebuildCache(h.order, h.byNode)
        h1 == IF b.raised THEN RefreshRaised(h, events)
              ELSE IF h.cmd = "refresh"
              THEN [Did(h, events) EXCEPT !.pc = "done", !.ret = "True"]
              ELSE [Did(h, events \o <<Emit(Msg("list"))>>) EXCEPT !.pc = "done"]
        heard == SelectSeq(h.trace \o events, IsResponse)
    IN /\ instance_data' = b.dir
       /\ lastBuild' = [done |-> TRUE, by |-> p, raised |-> b.raised, heard |-> heard,
                        same |-> lastBuild.done /\ lastBuild.heard = heard]
       /\ hs' = [hs EXCEPT ![p] = h1]

\* the node loop: skip excluded nodes, query the next one, or finish
AfterNode(p, h, events) ==
    LET j == NextNode(h.nodes, h.k) IN
    IF j # 0
    THEN /\ hs' = [hs EXCEPT ![p] =
                     [Did(h, events \o <<Request("/service/remote_service_instances",
                                                 <<h.nodes[j]>>)>>)
                        EXCEPT !.k = j, !.pc = "node_wait",
                               !.order = Append(@, h.nodes[j]),
                               !.byNode = (h.nodes[j] :> <<>>) @@ @]]
         /\ UNCHANGED <<instance_data, lastBuild>>
    ELSE Finalize(p, h, events)

\* _refresh_instance_cache_async up to its first await
BgOverviewRequest ==
    /\ 0 \in DOMAIN hs
    /\ hs[0].pc = "start"
    /\ hs' = [hs EXCEPT ![0] = [Did(@, <<Request("/overview", <<>>)>>) EXCEPT !.pc = "ov_wait"]]
    /\ UNCHANGED <<instance_data, cooldowns, now, config, panel, lastBuild, lastSuccess>>

\* mcsm_list up to its first yield
ListStart(p) ==
    /\ p # 0
    /\ Free(p)
    /\ hs' = [hs EXCEPT ![p] = [Did(Fresh(p), <<Emit(Msg("fetching"))>>)
                                   EXCEPT !.pc = "list_yield", !.cmd = "list"]]
    /\ UNCHANGED <<instance_data, cooldowns, now, config, panel, lastBuild, lastSuccess>>

ListOverviewRequest(p) ==
    /\ hs[p].pc = "list_yield"
    /\ hs' = [hs EXCEPT ![p] = [Did(@, <<Request("/overview", <<>>)>>) EXCEPT !.pc = "ov_wait"]]
    /\ UNCHANGED <<instance_data, cooldowns, now, config, panel, lastBuild, lastSuccess>>

\* an overview failure that empties the cache
OverviewResponseClearing(p, r) ==
    /\ hs[p].pc = "ov_wait"
    /\ LET h == hs[p]
           events == <<Response(r = "ok")>>
       IN IF r # "ok"
          THEN /\ hs' = [hs EXCEPT ![p] =
                           IF h.cmd = "refresh"
                           THEN [Did(h, events) EXCEPT !.pc = "done", !.ret = "False"]
                           ELSE [Did(h, events \o <<Emit(Msg("no_nodes"))>>) EXCEPT !.pc = "done"]]
               /\ instance_data' = EmptyDirectory
               /\ UNCHANGED lastBuild
          ELSE AfterNode(p, [h EXCEPT !.nodes = OverviewOrder], events)
    /\ UNCHANGED <<cooldowns, now, config, panel, lastSuccess>>

\* the overview answer: an error status, an empty node list, or the nodes
OverviewResponse(p, r) ==
    /\ hs[p].pc = "ov_wait"
    /\ LET h == hs[p]
           events == <<Response(r = "ok")>>
       IN IF r # "ok"
          THEN /\ hs' = [hs EXCEPT ![p] =
                           IF h.cmd = "refresh"
                           THEN [Did(h, events) EXCEPT !.pc = "done", !.ret = "False"]
                           ELSE [Did(h, events \o <<Emit(Msg("no_nodes"))>>) EXCEPT !.pc = "done"]]
               /\ UNCHANGED <<instance_data, lastBuild>>
          ELSE AfterNode(p, [h EXCEPT !.nodes = OverviewOrder], events)
    /\ UNCHANGED <<cooldowns, now, config, panel, lastSuccess>>

\* a refresh that gives up at the first node that fails to answer
NodeResponseAbort(p, ok) ==
    /\ hs[p].pc = "node_wait"
    /\ LET h == hs[p]
           events == <<Response(ok)>>
           node == h.nodes[h.k]
           c == CollectInstances(config, node, NodeInstances(panel, node))
       IN IF ~ ok \/ c.raised
          THEN /\ hs' = [hs EXCEPT ![p] = RefreshRaised(h, events)]
               /\ UNCHANGED <<instance_data, lastBuild>>
          ELSE AfterNode(p, [h EXCEPT !.byNode[node] = c.list], events)
    /\ UNCHANGED <<cooldowns, now, config, panel, lastSuccess>>

\* the answer to one node's instance query
NodeResponse(p, ok) ==
    /\ hs[p].pc = "node_wait"
    /\ LET h == hs[p]
           events == <<Response(ok)>>
           node == h.nodes[h.k]
           c == CollectInstances(config, node, NodeInstances(panel, node))
       IN IF ~ ok THEN AfterNode(p, h, events)
          ELSE IF c.raised
          THEN /\ hs' = [hs EXCEPT ![p] = RefreshRaised(h, events)]
               /\ UNCHANGED <<instance_data, lastBuild>>
          ELSE AfterNode(p, [h EXCEPT !.byNode[node] = c.list], events)
    /\ UNCHANGED <<cooldowns, now, config, panel, lastSuccess>>

-----------------------------------------------------------------------------
(* The cooldown manager *)

CooldownSeconds == 10

\* a quiet period that still holds at exactly ten seconds
CheckCooldownInclusive(cd, id, t) ==
    t - (IF id \in DOMAIN cd THEN cd[id] ELSE 0) <= CooldownSeconds

\* check_cooldown at time t: cooldowns.get(id, 0), then t - last < 10
CheckCooldown(cd, id, t) ==
    t - (IF id \in DOMAIN cd THEN cd[id] ELSE 0) < CooldownSeconds

\* a cooldown that keeps the time of the first success
SetCooldownKeepFirst(cd, id, t) ==
    IF id \in DOMAIN cd THEN cd ELSE (id :> t) @@ cd

\* set_cooldown at time t
SetCooldown(cd, id, t) == (id :> t) @@ cd

-----------------------------------------------------------------------------
(* start and stop *)

Endpoint(op) ==
    IF op = "start" THEN "/protected_instance/open" ELSE "/protected_instance/stop"

\* answers of the panel to a start/stop/command request, as make_mcsm_request
\* returns them: "" stands for a field that is absent or empty
RespOk == [status |-> 200, data |-> "", error |-> ""]
RespError == [status |-> 500, data |-> "", error |-> "E"]
RespData == [status |-> 400, data |-> "D", error |-> "E"]
Responses == {RespOk, RespError, RespData}

\* an error text that ignores the data field
ErrTextErrorOnly(resp) ==
    IF resp.error # "" THEN resp.error ELSE "unknown"

\* resp.get("data") or resp.get("error") or "unknown error"
ErrText(resp) ==
    IF resp.data # "" THEN resp.data
    ELSE IF resp.error # "" THEN resp.error
    ELSE "unknown"

\* an item named as the operator typed it
InstanceNameAsTyped(dir, uuid, ident) == Str(ident)

\* the display name of a resolved instance: the first cache record with its
\* uuid, else the identifier as typed
InstanceName(dir, instance_id, identifier) ==
    LET i == FirstWithUuid(dir, instance_id)
    IN IF i = 0 THEN Str(identifier) ELSE dir.instances[i].name

NonEmpty(s) == s # <<>>

\* a collection without the type test
CollectInstancesForBatchUnchecked(dir, cfg, raw) ==
    LET stripped == [i \in 1..Len(raw) |-> Strip(raw[i])]
        identifiers == SelectSeq(stripped, NonEmpty)
        Found(ident) == GetInstanceByIdentifier(dir, cfg, ident) \notin {None, Raised}
        NotFound(ident) == GetInstanceByIdentifier(dir, cfg, ident) = None
        found == SelectSeq(identifiers, Found)
    IN [mixed |-> FALSE, raised |-> FALSE,
        instances |-> [i \in 1..Len(found) |->
            LET ids == GetInstanceByIdentifier(dir, cfg, found[i])
            IN [ident |-> found[i], daemon_id |-> ids[1], instance_id |-> ids[2],
                instance_name |-> InstanceName(dir, ids[2], found[i])]],
        failed |-> SelectSeq(identifiers, NotFound),
        events |-> [i \in 1..Len(identifiers) |-> [e |-> "resolve", ident |-> identifiers[i]]]]

\* _collect_instances_for_batch: (None, None) is mixed = TRUE
CollectInstancesForBatch(dir, cfg, raw) ==
    LET stripped == [i \in 1..Len(raw) |-> Strip(raw[i])]
        identifiers == SelectSeq(stripped, NonEmpty)
        first_type == DetectIdentifierType(identifiers[1])
        mixed == identifiers # <<>> /\
                 \E i \in 1..Len(identifiers) : DetectIdentifierType(identifiers[i]) # first_type
        Found(ident) == GetInstanceByIdentifier(dir, cfg, ident) \notin {None, Raised}
        NotFound(ident) == GetInstanceByIdentifier(dir, cfg, ident) = None
        found == SelectSeq(identifiers, Found)
    IN IF mixed
       THEN [mixed |-> TRUE, raised |-> FALSE, instances |-> <<>>, failed |-> <<>>,
             events |-> <<>>]
       ELSE [mixed |-> FALSE,
             raised |-> \E i \in 1..Len(identifiers) :
                           GetInstanceByIdentifier(dir, cfg, identifiers[i]) = Raised,
             instances |-> [i \in 1..Len(found) |->
                 LET ids == GetInstanceByIdentifier(dir, cfg, found[i])
                 IN [ident |-> found[i], daemon_id |-> ids[1], instance_id |-> ids[2],
                     instance_name |-> InstanceName(dir, ids[2], found[i])]],
             failed |-> SelectSeq(identifiers, NotFound),
             events |-> [i \in 1..Len(identifiers) |->
                            [e |-> "resolve", ident |-> identifiers[i]]]]

Check(id, cooling) == [e |-> "check", id |-> id, cooling |-> cooling]
Pause == [e |-> "pause"]

\* a final message without the per-item lines
SummaryCountsOnly(h) ==
    Emit([kind |-> "batch_summary", success |-> h.success_count, fail |-> h.fail_count,
          lines |-> <<>>, unresolved |-> h.failed, fail_details |-> h.fail_details])

\* the final message of a batch
Summary(h) ==
    Emit([kind |-> "batch_summary", success |-> h.success_count, fail |-> h.fail_count,
          lines |-> h.result_messages, unresolved |-> h.failed,
          fail_details |-> h.fail_details])

\* a batch loop that walks the resolved items from the last to the first
NextItemBackwards(p, h, events) ==
    LET i == h.idx + 1 IN
    IF i > Len(h.instances)
    THEN hs' = [hs EXCEPT ![p] = [Did(h, events \o <<Summary(h)>>) EXCEPT !.pc = "done"]]
    ELSE LET item == h.instances[Len(h.instances) + 1 - i] IN
         IF CheckCooldown(cooldowns, item.instance_id, now)
         THEN hs' = [hs EXCEPT ![p] =
                 [Did(h, events \o <<Check(item.instance_id, TRUE), Pause>>) EXCEPT
                    !.idx = i, !.pc = "batch_sleep", !.wake = now + config.batch_interval,
                    !.result_messages = Append(@, [kind |-> "skipped", name |-> item.instance_name]),
                    !.fail_count = @ + 1,
                    !.fail_details = Append(@, [name |-> item.instance_name, text |-> "too_fast"])]]
         ELSE hs' = [hs EXCEPT ![p] =
                 [Did(h, events \o <<Check(item.instance_id, FALSE),
                                     Request(Endpoint(h.op), <<item.instance_id, item.daemon_id>>)>>)
                    EXCEPT !.idx = i, !.pc = "batch_wait"]]

\* a batch loop that records a cooling item as skipped and dispatches to it all the same
NextItemSkipAndDispatch(p, h, events) ==
    LET i == h.idx + 1 IN
    IF i > Len(h.instances)
    THEN hs' = [hs EXCEPT ![p] = [Did(h, events \o <<Summary(h)>>) EXCEPT !.pc = "done"]]
    ELSE LET item == h.instances[i] IN
         IF CheckCooldown(cooldowns, item.instance_id, now)
         THEN hs' = [hs EXCEPT ![p] =
                 [Did(h, events \o <<Check(item.instance_id, TRUE),
                                     Request(Endpoint(h.op), <<item.instance_id, item.daemon_id>>)>>)
                    EXCEPT
                    !.idx = i, !.pc = "batch_wait",
                    !.result_messages = Append(@, [kind |-> "skipped", name |-> item.instance_name]),
                    !.fail_count = @ + 1,
                    !.fail_details = Append(@, [name |-> item.instance_name, text |-> "too_fast"])]]
         ELSE hs' = [hs EXCEPT ![p] =
                 [Did(h, events \o <<Check(item.instance_id, FALSE),
                                     Request(Endpoint(h.op), <<item.instance_id, item.daemon_id>>)>>)
                    EXCEPT !.idx = i, !.pc = "batch_wait"]]

\* a batch loop that looks each item's identifier up again when its turn comes
NextItemLookingUpAgain(p, h, events) ==
    LET i == h.idx + 1 IN
    IF i > Len(h.instances)
    THEN hs' = [hs EXCEPT ![p] = [Did(h, events \o <<Summary(h)>>) EXCEPT !.pc = "done"]]
    ELSE LET kept == h.instances[i]
             ids == GetInstanceByIdentifier(instance_data, config, kept.ident)
             item == IF ids \in {None, Raised} THEN kept
                     ELSE [kept EXCEPT !.daemon_id = ids[1], !.instance_id = ids[2]]
         IN
         IF CheckCooldown(cooldowns, item.instance_id, now)
         THEN hs' = [hs EXCEPT ![p] =
                 [Did(h, events \o <<Check(item.instance_id, TRUE), Pause>>) EXCEPT
                    !.idx = i, !.pc = "batch_sleep", !.wake = now + config.batch_interval,
                    !.result_messages = Append(@, [kind |-> "skipped", name |-> item.instance_name]),
                    !.fail_count = @ + 1,
                    !.fail_details = Append(@, [name |-> item.instance_name, text |-> "too_fast"])]]
         ELSE hs' = [hs EXCEPT ![p] =
                 [Did(h, events \o <<Check(item.instance_id, FALSE),
                                     Request(Endpoint(h.op), <<item.instance_id, item.daemon_id>>)>>)
                    EXCEPT !.idx = i, !.pc = "batch_wait"]]

\* the batch loop from the top of iteration h.idx + 1 to the next suspension
NextItem(p, h, events) ==
    LET i == h.idx + 1 IN
    IF i > Len(h.instances)
    THEN hs' = [hs EXCEPT ![p] = [Did(h, events \o <<Summary(h)>>) EXCEPT !.pc = "done"]]
    ELSE LET item == h.instances[i] IN
         IF CheckCooldown(cooldowns, item.instance_id, now)
         THEN hs' = [hs EXCEPT ![p] =
                 [Did(h, events \o <<Check(item.instance_id, TRUE), Pause>>) EXCEPT
                    !.idx = i, !.pc = "batch_sleep", !.wake = now + config.batch_interval,
                    !.result_messages = Append(@, [kind |-> "skipped", name |-> item.instance_name]),
                    !.fail_count = @ + 1,
                    !.fail_details = Append(@, [name |-> item.instance_name, text |-> "too_fast"])]]
         ELSE hs' = [hs EXCEPT ![p] =
                 [Did(h, events \o <<Check(item.instance_id, FALSE),
                                     Request(Endpoint(h.op), <<item.instance_id, item.daemon_id>>)>>)
                    EXCEPT !.idx = i, !.pc = "batch_wait"]]

\* a batch that announces and runs even when nothing resolved
BatchBeginAnnounceAlways(p, op, identifiers) ==
    LET c == CollectInstancesForBatch(instance_data, config, identifiers)
        h == [Fresh(p) EXCEPT !.cmd = "batch", !.op = op, !.identifiers = identifiers]
    IN hs' = [hs EXCEPT ![p] =
         IF c.mixed THEN [Did(h, <<Emit(Msg("mixed_types"))>>) EXCEPT !.pc = "done"]
         ELSE IF c.raised THEN [Did(h, c.events) EXCEPT !.pc = "crashed"]
         ELSE [Did(h, c.events \o <<Emit([kind |-> "batch_start", count |-> Len(c.instances)])>>)
                 EXCEPT !.pc = "batch_announced", !.instances = c.instances,
                        !.failed = c.failed]]

\* mcsm_start / mcsm_stop with two or more identifiers, up to the first yield
BatchBegin(p, op, identifiers) ==
    LET c == CollectInstancesForBatch(instance_data, config, identifiers)
        h == [Fresh(p) EXCEPT !.cmd = "batch", !.op = op, !.identifiers = identifiers]
    IN hs' = [hs EXCEPT ![p] =
         IF c.mixed THEN [Did(h, <<Emit(Msg("mixed_types"))>>) EXCEPT !.pc = "done"]
         ELSE IF c.raised THEN [Did(h, c.events) EXCEPT !.pc = "crashed"]
         ELSE IF c.instances = <<>>
         THEN [Did(h, c.events \o <<Emit(Msg("none_resolved"))>>) EXCEPT
                 !.pc = "done", !.failed = c.failed]
         ELSE [Did(h, c.events \o <<Emit([kind |-> "batch_start", count |-> Len(c.instances)])>>)
                 EXCEPT !.pc = "batch_announced", !.instances = c.instances,
                        !.failed = c.failed]]

\* a lookup that asks the panel for the overview when it finds nothing
SingleBeginRefreshing(p, op, identifier) ==
    LET ids == GetInstanceByIdentifier(instance_data, config, identifier)
        h == [Fresh(p) EXCEPT !.cmd = "single", !.op = op, !.identifiers = <<identifier>>]
        ev == <<[e |-> "resolve", ident |-> identifier]>>
    IN hs' = [hs EXCEPT ![p] =
         IF ids = Raised THEN [Did(h, ev) EXCEPT !.pc = "crashed"]
         ELSE IF ids = None
         THEN [Did(h, ev \o <<Request("/overview", <<>>), Emit(Msg("not_found"))>>)
                 EXCEPT !.pc = "done"]
         ELSE IF CheckCooldown(cooldowns, ids[2], now)
         THEN [Did(h, ev \o <<Check(ids[2], TRUE), Emit(Msg("too_fast"))>>) EXCEPT !.pc = "done"]
         ELSE [Did(h, ev \o <<Check(ids[2], FALSE), Emit(Msg("working"))>>) EXCEPT
                 !.pc = "single_yield", !.ids = ids,
                 !.name = InstanceName(instance_data, ids[2], identifier)]]

\* _process_single_instance up to its first yield
SingleBegin(p, op, identifier) ==
    LET ids == GetInstanceByIdentifier(instance_data, config, identifier)
        h == [Fresh(p) EXCEPT !.cmd = "single", !.op = op, !.identifiers = <<identifier>>]
        ev == <<[e |-> "resolve", ident |-> identifier]>>
    IN hs' = [hs EXCEPT ![p] =
         IF ids = Raised THEN [Did(h, ev) EXCEPT !.pc = "crashed"]
         ELSE IF ids = None
         THEN IF Str(identifier) \in instance_data.ambiguous_names
              THEN [Did(h, ev \o <<Emit(Msg("ambiguous_name"))>>) EXCEPT !.pc = "done"]
              ELSE [Did(h, ev \o <<Emit(Msg("not_found"))>>) EXCEPT !.pc = "done"]
         ELSE IF CheckCooldown(cooldowns, ids[2], now)
         THEN [Did(h, ev \o <<Check(ids[2], TRUE), Emit(Msg("too_fast"))>>) EXCEPT !.pc = "done"]
         ELSE [Did(h, ev \o <<Check(ids[2], FALSE), Emit(Msg("working"))>>) EXCEPT
                 !.pc = "single_yield", !.ids = ids,
                 !.name = InstanceName(instance_data, ids[2], identifier)]]

\* mcsm_start / mcsm_stop: the identifiers are the words after the command
StartStop(p, op, identifiers) ==
    /\ p # 0
    /\ Free(p)
    /\ IF Len(identifiers) > 1 THEN BatchBegin(p, op, identifiers)
       ELSE IF identifiers = <<>>
       THEN hs' = [hs EXCEPT ![p] =
                [Did([Fresh(p) EXCEPT !.cmd = "single", !.op = op], <<Emit(Msg("no_identifier"))>>)
                   EXCEPT !.pc = "done"]]
       ELSE SingleBegin(p, op, identifiers[1])
    /\ UNCHANGED <<instance_data, cooldowns, now, config, panel, lastBuild, lastSuccess>>

\* after the announcement: the first asyncio.sleep(batch_interval)
BatchFirstPause(p) ==
    /\ hs[p].pc = "batch_announced"
    /\ hs' = [hs EXCEPT ![p] = [Did(@, <<Pause>>) EXCEPT
                                   !.pc = "batch_sleep", !.wake = now + config.batch_interval]]
    /\ UNCHANGED <<instance_data, cooldowns, now, config, panel, lastBuild, lastSuccess>>

\* a sleep ends: the loop goes on with the next item
BatchWake(p) ==
    /\ hs[p].pc = "batch_sleep"
    /\ now >= hs[p].wake
    /\ NextItem(p, hs[p], <<>>)
    /\ UNCHANGED <<instance_data, cooldowns, now, config, panel, lastBuild, lastSuccess>>

\* a batch that ends at the first failure answer, with the failure as its last message
BatchResponseStopAtFailure(p, resp) ==
    /\ hs[p].pc = "batch_wait"
    /\ LET h == hs[p]
           item == h.instances[h.idx]
           ev == <<Answer(resp)>>
           h1 == [h EXCEPT
                    !.result_messages = Append(@, [kind |-> "sent", name |-> item.instance_name]),
                    !.success_count = @ + 1]
       IN /\ cooldowns' = IF resp.status # 200 THEN cooldowns
                          ELSE SetCooldown(cooldowns, item.instance_id, now)
          /\ lastSuccess' = IF resp.status # 200 THEN lastSuccess
                            ELSE (item.instance_id :> now) @@ lastSuccess
          /\ IF resp.status # 200
             THEN hs' = [hs EXCEPT ![p] =
                           [Did(h, ev \o <<Emit([kind |-> "failed", status |-> resp.status,
                                                 err |-> ErrText(resp)])>>)
                              EXCEPT !.pc = "done"]]
             ELSE IF h.idx < Len(h.instances)
             THEN hs' = [hs EXCEPT ![p] = [Did(h1, ev \o <<Pause>>) EXCEPT
                            !.pc = "batch_sleep", !.wake = now + config.batch_interval]]
             ELSE hs' = [hs EXCEPT ![p] = [Did(h1, ev \o <<Summary(h1)>>) EXCEPT !.pc = "done"]]
    /\ UNCHANGED <<instance_data, now, config, panel, lastBuild>>

\* the panel answers the start/stop request of the current batch item
BatchResponse(p, resp) ==
    /\ hs[p].pc = "batch_wait"
    /\ LET h == hs[p]
           item == h.instances[h.idx]
           ev == <<Answer(resp)>>
           h1 == IF resp.status # 200
                 THEN [h EXCEPT
                         !.result_messages = Append(@, [kind |-> "failed", name |-> item.instance_name,
                                                        status |-> resp.status, err |-> ErrText(resp)]),
                         !.fail_count = @ + 1,
                         !.fail_details = Append(@, [name |-> item.instance_name,
                                                     text |-> ErrText(resp)])]
                 ELSE [h EXCEPT
                         !.result_messages = Append(@, [kind |-> "sent", name |-> item.instance_name]),
                         !.success_count = @ + 1]
       IN /\ cooldowns' = IF resp.status # 200 THEN cooldowns
                          ELSE SetCooldown(cooldowns, item.instance_id, now)
          /\ lastSuccess' = IF resp.status # 200 THEN lastSuccess
                            ELSE (item.instance_id :> now) @@ lastSuccess
          /\ IF h.idx < Len(h.instances)
             THEN hs' = [hs EXCEPT ![p] = [Did(h1, ev \o <<Pause>>) EXCEPT
                            !.pc = "batch_sleep", !.wake = now + config.batch_interval]]
             ELSE hs' = [hs EXCEPT ![p] = [Did(h1, ev \o <<Summary(h1)>>) EXCEPT !.pc = "done"]]
    /\ UNCHANGED <<instance_data, now, config, panel, lastBuild>>

\* _process_single_instance: the request after the "working" message
SingleRequest(p) ==
    /\ hs[p].pc = "single_yield"
    /\ hs' = [hs EXCEPT ![p] =
                [Did(@, <<Request(Endpoint(hs[p].op), <<hs[p].ids[2], hs[p].ids[1]>>)>>)
                   EXCEPT !.pc = "single_wait"]]
    /\ UNCHANGED <<instance_data, cooldowns, now, config, panel, lastBuild, lastSuccess>>

\* _process_single_instance: the answer
SingleResponse(p, resp) ==
    /\ hs[p].pc = "single_wait"
    /\ LET h == hs[p]
           ev == <<Answer(resp)>>
       IN IF resp.status # 200
          THEN /\ hs' = [hs EXCEPT ![p] =
                           [Did(h, ev \o <<Emit([kind |-> "failed", status |-> resp.status,
                                                 err |-> ErrText(resp)])>>)
                              EXCEPT !.pc = "done"]]
               /\ UNCHANGED <<cooldowns, lastSuccess>>
          ELSE /\ cooldowns' = SetCooldown(cooldowns, h.ids[2], now)
               /\ lastSuccess' = (h.ids[2] :> now) @@ lastSuccess
               /\ hs' = [hs EXCEPT ![p] =
                           [Did(h, ev \o <<Emit([kind |-> "sent", name |-> h.name])>>)
                              EXCEPT !.pc = "done"]]
    /\ UNCHANGED <<instance_data, now, config, panel, lastBuild>>

-----------------------------------------------------------------------------
(* cmd and log *)

\* the reply to a failed lookup in mcsm_start/stop (single), mcsm_cmd and mcsm_log
LookupFailure(identifier) ==
    IF Str(identifier) \in instance_data.ambiguous_names
    THEN Emit(Msg("ambiguous_name"))
    ELSE Emit(Msg("not_found"))

CmdTailChars == 500
LogTailChars == 15000

\* a text of n characters cut to its last limit characters behind "..."
TailText(n, limit) ==
    IF n > limit THEN [ellipsis |-> TRUE, chars |-> limit]
    ELSE [ellipsis |-> FALSE, chars |-> n]

\* answers of GET /protected_instance/outputlog: data is the log, a sequence
\* of lines, each of len characters
LogLine(id, len) == [id |-> id, len |-> len]
LogOk(lines) == [status |-> 200, lines |-> lines, error |-> ""]
LogFail == [status |-> 500, lines |-> <<>>, error |-> "E"]
LogResponses ==
    {LogFail, LogOk(<<>>), LogOk(<<LogLine(1, 3), LogLine(2, 600), LogLine(3, 4)>>)}

RECURSIVE SumLen(_)
SumLen(lines) == IF lines = <<>> THEN 0 ELSE Head(lines).len + SumLen(Tail(lines))

\* len("\n".join(lines))
JoinedLen(lines) == IF lines = <<>> THEN 0 ELSE SumLen(lines) + Len(lines) - 1

\* lines[-n:] as Python slices it
LastLines(lines, n) ==
    IF n = 0 THEN lines
    ELSE IF n > 0 THEN SubSeq(lines, Len(lines) - n + 1, Len(lines))
    ELSE SubSeq(lines, 1 - n, Len(lines))

\* mcsm_cmd up to its first yield; hasText: the message has words after the identifier
Cmd(p, identifier, hasText) ==
    /\ p # 0
    /\ Free(p)
    /\ LET h == [Fresh(p) EXCEPT !.cmd = "cmd", !.identifiers = <<identifier>>]
           ids == GetInstanceByIdentifier(instance_data, config, identifier)
           ev == <<[e |-> "resolve", ident |-> identifier]>>
       IN hs' = [hs EXCEPT ![p] =
            IF ~ hasText THEN [Did(h, <<Emit(Msg("usage"))>>) EXCEPT !.pc = "done"]
            ELSE IF ids = Raised THEN [Did(h, ev) EXCEPT !.pc = "crashed"]
            ELSE IF ids = None THEN [Did(h, ev \o <<LookupFailure(identifier)>>) EXCEPT !.pc = "done"]
            ELSE [Did(h, ev \o <<Emit(Msg("sending"))>>) EXCEPT
                    !.pc = "cmd_yield", !.ids = ids,
                    !.name = InstanceName(instance_data, ids[2], identifier)]]
    /\ UNCHANGED <<instance_data, cooldowns, now, config, panel, lastBuild, lastSuccess>>

CmdRequest(p) ==
    /\ hs[p].pc = "cmd_yield"
    /\ hs' = [hs EXCEPT ![p] =
                [Did(@, <<Request("/protected_instance/command", <<hs[p].ids[2], hs[p].ids[1]>>)>>)
                   EXCEPT !.pc = "cmd_wait"]]
    /\ UNCHANGED <<instance_data, cooldowns, now, config, panel, lastBuild, lastSuccess>>

\* the answer to the command request: a failure message, or asyncio.sleep(1)
CmdResponse(p, resp) ==
    /\ hs[p].pc = "cmd_wait"
    /\ LET ev == <<Answer(resp)>> IN
       hs' = [hs EXCEPT ![p] =
          IF resp.status # 200
          THEN [Did(@, ev \o <<Emit([kind |-> "failed", status |-> resp.status,
                                     err |-> ErrText(resp)])>>) EXCEPT !.pc = "done"]
          ELSE [Did(@, ev \o <<Pause>>) EXCEPT !.pc = "cmd_sleep", !.wake = now + 1]]
    /\ UNCHANGED <<instance_data, cooldowns, now, config, panel, lastBuild, lastSuccess>>

CmdWake(p) ==
    /\ hs[p].pc = "cmd_sleep"
    /\ now >= hs[p].wake
    /\ hs' = [hs EXCEPT ![p] =
                [Did(@, <<Request("/protected_instance/outputlog", <<hs[p].ids[2], hs[p].ids[1]>>)>>)
                   EXCEPT !.pc = "cmd_log_wait"]]
    /\ UNCHANGED <<instance_data, cooldowns, now, config, panel, lastBuild, lastSuccess>>

\* the log after the command: any text of the answer, cut to 500 characters
CmdLogResponse(p, r) ==
    /\ hs[p].pc = "cmd_log_wait"
    /\ LET ev == <<Answer(r)>>
           output == IF r.status = 200 /\ r.lines # <<>>
                     THEN TailText(JoinedLen(r.lines), CmdTailChars)
                     ELSE [ellipsis |-> FALSE, chars |-> 0]
       IN hs' = [hs EXCEPT ![p] =
                   [Did(@, ev \o <<Emit([kind |-> "cmd_done", output |-> output])>>)
                      EXCEPT !.pc = "done"]]
    /\ UNCHANGED <<instance_data, cooldowns, now, config, panel, lastBuild, lastSuccess>>

\* mcsm_log up to its first yield
Log(p, identifier) ==
    /\ p # 0
    /\ Free(p)
    /\ LET h == [Fresh(p) EXCEPT !.cmd = "log", !.identifiers = <<identifier>>]
           ids == GetInstanceByIdentifier(instance_data, config, identifier)
           ev == <<[e |-> "resolve", ident |-> identifier]>>
       IN hs' = [hs EXCEPT ![p] =
            IF ids = Raised THEN [Did(h, ev) EXCEPT !.pc = "crashed"]
            ELSE IF ids = None THEN [Did(h, ev \o <<LookupFailure(identifier)>>) EXCEPT !.pc = "done"]
            ELSE [Did(h, ev \o <<Emit(Msg("fetching_log"))>>) EXCEPT
                    !.pc = "log_yield", !.ids = ids]]
    /\ UNCHANGED <<instance_data, cooldowns, now, config, panel, lastBuild, lastSuccess>>

LogRequest(p) ==
    /\ hs[p].pc = "log_yield"
    /\ hs' = [hs EXCEPT ![p] =
                [Did(@, <<Request("/protected_instance/outputlog", <<hs[p].ids[2], hs[p].ids[1]>>)>>)
                   EXCEPT !.pc = "log_wait"]]
    /\ UNCHANGED <<instance_data, cooldowns, now, config, panel, lastBuild, lastSuccess>>

\* the log answer: the last log_size lines, cut to 15000 characters; an unset
\* log_size makes the comparison len(lines) > None raise
LogResponse(p, r) ==
    /\ hs[p].pc = "log_wait"
    /\ LET ev == <<Answer(r)>>
           size == config.log_size
           lines == IF Len(r.lines) > size.v THEN LastLines(r.lines, size.v) ELSE r.lines
       IN hs' = [hs EXCEPT ![p] =
            IF r.status # 200
            THEN [Did(@, ev \o <<Emit([kind |-> "log_failed",
                                       err |-> IF r.error # "" THEN r.error ELSE "unknown"])>>)
                    EXCEPT !.pc = "done"]
            ELSE IF r.lines = <<>>
            THEN [Did(@, ev \o <<Emit(Msg("no_log"))>>) EXCEPT !.pc = "done"]
            ELSE IF ~ size.set THEN [Did(@, ev) EXCEPT !.pc = "crashed"]
            ELSE [Did(@, ev \o <<Emit([kind |-> "log", count |-> Len(lines), lines |-> lines,
                                       text |-> TailText(JoinedLen(lines), LogTailChars)])>>)
                    EXCEPT !.pc = "done"]]
    /\ UNCHANGED <<instance_data, cooldowns, now, config, panel, lastBuild, lastSuccess>>

\* mcsm_status: the request for the overview
Status(p) ==
    /\ p # 0
    /\ Free(p)
    /\ hs' = [hs EXCEPT ![p] =
                [Did([Fresh(p) EXCEPT !.cmd = "status"], <<Request("/overview", <<>>)>>)
                   EXCEPT !.pc = "status_wait"]]
    /\ UNCHANGED <<instance_data, cooldowns, now, config, panel, lastBuild, lastSuccess>>

\* answers to the overview: a failure, status 200 with "data" an object,
\* status 200 without "data", status 200 with "data": null
StatusShapes == {"error", "ok", "no_data", "null_data"}

\* mcsm_status after the answer: the failure message, the report, or the
\* AttributeError of data.get on None
StatusResponse(p, shape) ==
    /\ hs[p].pc = "status_wait"
    /\ LET ev == <<Response(shape # "error")>> IN
       hs' = [hs EXCEPT ![p] =
          IF shape = "error"
          THEN [Did(@, ev \o <<Emit(Msg("status_failed"))>>) EXCEPT !.pc = "done"]
          ELSE IF shape = "null_data" THEN [Did(@, ev) EXCEPT !.pc = "crashed"]
          ELSE [Did(@, ev \o <<Emit(Msg("status"))>>) EXCEPT !.pc = "done"]]
    /\ UNCHANGED <<instance_data, cooldowns, now, config, panel, lastBuild, lastSuccess>>

\* time passes
Tick ==
    /\ now < StartTime + MaxElapsed
    /\ now' = now + 1
    /\ UNCHANGED <<instance_data, cooldowns, config, panel, hs, lastBuild, lastSuccess>>

-----------------------------------------------------------------------------
(* Specification of the directory: the refresh task created at construction *)
(* runs first, then list commands run one after another.                    *)

InitDir ==
    /\ instance_data = EmptyDirectory
    /\ cooldowns = EmptyMap
    /\ now = StartTime
    /\ config \in Configs
    /\ panel \in [1..MaxInst -> Placements]
    /\ hs = (0 :> [IdleH EXCEPT !.pc = "start", !.cmd = "refresh"]) @@ (1 :> IdleH)
    /\ lastBuild = NoBuild
    /\ lastSuccess = EmptyMap

NextDir ==
    \/ BgOverviewRequest
    \/ \E p \in DOMAIN hs : hs[0].pc = "done" /\ ListStart(p)
    \/ \E p \in DOMAIN hs : ListOverviewRequest(p)
    \/ \E p \in DOMAIN hs, r \in {"error", "empty", "ok"} : OverviewResponse(p, r)
    \/ \E p \in DOMAIN hs, ok \in BOOLEAN : NodeResponse(p, ok)
    \/ \E p \in DOMAIN hs : Return(p)

SpecDir == InitDir /\ [][NextDir]_vars

-----------------------------------------------------------------------------
(* Properties of the directory *)

Records == instance_data.instances
RecordIds == 1..Len(Records)
PairOf(i) == <<Records[i].daemon_id, Records[i].uuid>>
Resolve(raw) == GetInstanceByIdentifier(instance_data, config, raw)

\* the cache is as the last rebuild left it, and that rebuild ran to its end
DirComplete == lastBuild.done /\ ~ lastBuild.raised

Carriers(name) == {i \in RecordIds : Records[i].name = name}
SharedName(i) == Cardinality(Carriers(Records[i].name)) >= 2

\* a name that the resolver looks up as a name, as typed: a string without
\* surrounding whitespace that is neither all digits nor in UUID format
PlainName(name) ==
    /\ name.t = "str"
    /\ Strip(name.v) = name.v
    /\ DetectIdentifierType(name.v) = "name"

\* C1 as stated: after a completed refresh, a display name shared by two or
\* more records resolves to no pair, and each of those records is resolved to
\* its own (daemon_id, uuid) by its index and by its uuid.
C1_SharedNameAsStated ==
    DirComplete =>
        \A i \in RecordIds : SharedName(i) =>
            /\ Resolve(Records[i].name.v) = None
            /\ Resolve(Records[i].index) = PairOf(i)
            /\ Resolve(Records[i].uuid) = PairOf(i)

\* C1 amended: after a completed refresh, a shared display name that is looked
\* up as a name (no surrounding whitespace, not all digits, not UUID format)
\* resolves to no pair; each record carrying a shared name is resolved to its
\* own pair by its index, and by its uuid unless the uuid is all digits.
C1_SharedName ==
    DirComplete =>
        \A i \in RecordIds : SharedName(i) =>
            /\ PlainName(Records[i].name) => Resolve(Records[i].name.v) = None
            /\ Resolve(Records[i].index) = PairOf(i)
            /\ ~ IsDigit(Records[i].uuid) => Resolve(Records[i].uuid) = PairOf(i)

\* two records on different nodes share a plain name, refused by name and
\* found by index and by uuid
C1_Witness ==
    /\ DirComplete
    /\ \E i, j \in RecordIds :
          /\ Records[i].name = Records[j].name
          /\ Records[i].daemon_id # Records[j].daemon_id
          /\ PlainName(Records[i].name)
          /\ ~ IsDigit(Records[i].uuid)
          /\ Resolve(Records[i].name.v) = None
          /\ Resolve(Records[i].index) = PairOf(i)
          /\ Resolve(Records[i].uuid) = PairOf(i)

\* C2: after a completed refresh, ambiguous_names is exactly the set of names
\* carried by two or more records, and a name is a key of name_to_id iff it is
\* not in ambiguous_names and exactly one record carries it.
C2_NameTables ==
    DirComplete =>
        /\ instance_data.ambiguous_names = {Records[i].name : i \in {j \in RecordIds : SharedName(j)}}
        /\ \A name \in Names \cup DOMAIN instance_data.name_to_id :
              name \in DOMAIN instance_data.name_to_id
                <=> (name \notin instance_data.ambiguous_names /\ Cardinality(Carriers(name)) = 1)

\* a completed refresh left a shared name and a unique name
C2_Witness ==
    /\ DirComplete
    /\ instance_data.ambiguous_names # {}
    /\ DOMAIN instance_data.name_to_id # {}

\* what a complete build of the collected data holds in each field
CompleteBuildOf(dir, order, byNode) ==
    LET all == Concat(order, byNode, 1) IN
    /\ Len(dir.instances) = Len(all)
    /\ DOMAIN dir.uuid_to_id = {all[i].uuid : i \in 1..Len(all)}
    /\ dir.ambiguous_names = AmbiguousNames(all)
    /\ DOMAIN dir.name_to_id = {all[i].name : i \in 1..Len(all)} \ AmbiguousNames(all)

\* C10: whatever a refresh attempt does to the cache, the four fields are all
\* as before or all those of one complete build of the data just collected.
C10_Wholesale ==
    [][\/ instance_data' = instance_data
       \/ CompleteBuildOf(instance_data', hs'[lastBuild'.by].order, hs'[lastBuild'.by].byNode)]_vars

\* C11: after a completed refresh the k-th record carries index k (as the
\* decimal string of k), for k = 1..n without gap or repeat, and the number
\* identifier k resolves to the k-th record.
C11_Indices ==
    DirComplete =>
        \A k \in RecordIds :
            /\ Records[k].index = IntToStr(k)
            /\ Resolve(IntToStr(k)) = PairOf(k)

\* three records over two nodes, numbered 1, 2, 3
C11_Witness ==
    /\ DirComplete
    /\ Len(Records) = 3
    /\ Records[1].daemon_id # Records[3].daemon_id
    /\ Records[3].index = <<"3">>
    /\ Resolve(<<"3">>) = PairOf(3)

\* the position of a daemon in the overview's list
NodePos(n) == CHOOSE k \in 1..Len(OverviewOrder) : OverviewOrder[k] = n

\* C12: after a completed refresh the records of a node that the overview
\* lists earlier precede those of a node it lists later, and inside a node
\* the names never decrease.
C12_Order ==
    DirComplete =>
        \A i, j \in RecordIds : i < j =>
            /\ NodePos(Records[i].daemon_id) <= NodePos(Records[j].daemon_id)
            /\ Records[i].daemon_id = Records[j].daemon_id
                  => ~ NameLess(Records[j].name, Records[i].name)

\* the first node listed "Al" then "2" and the second node "Al": index 1 is
\* ("2" of the first node), 2 is its "Al", 3 the other "Al"; "Al" is
\* ambiguous and name_to_id holds "2" only
C12_Witness ==
    /\ DirComplete
    /\ Len(Records) = 3
    /\ Records[1].daemon_id = OverviewOrder[1] /\ Records[1].name = Name2
    /\ Records[1].uuid = UuidOf(2)
    /\ Records[2].daemon_id = OverviewOrder[1] /\ Records[2].name = NameAl
    /\ Records[2].uuid = UuidOf(1)
    /\ Records[3].daemon_id = OverviewOrder[2] /\ Records[3].name = NameAl
    /\ instance_data.ambiguous_names = {NameAl}
    /\ DOMAIN instance_data.name_to_id = {Name2}

\* a step in which refresh p received an overview answer without nodes
OverviewFailed(p) ==
    /\ hs[p].pc = "ov_wait"
    /\ hs'[p] # hs[p]
    /\ hs'[p].step[1] = Response(FALSE)

\* C17: when the overview call fails or lists no node, the refresh ends
\* reporting failure (the task returns False, the list command answers that
\* no node could be fetched), has sent no instance query, and the four fields
\* of the cache are as before.
C17_OverviewFailure ==
    [][\A p \in DOMAIN hs : OverviewFailed(p) =>
          /\ hs'[p].pc = "done"
          /\ IF hs'[p].cmd = "refresh" THEN hs'[p].ret = "False"
             ELSE hs'[p].step[Len(hs'[p].step)] = Emit(Msg("no_nodes"))
          /\ \A k \in 1..Len(hs'[p].trace) :
                hs'[p].trace[k].e = "request" => hs'[p].trace[k].endpoint = "/overview"
          /\ instance_data' = instance_data]_vars

\* a list command failed at the overview and the cache still holds the three
\* records of the refresh before it
C17_Witness ==
    \E p \in DOMAIN hs :
        /\ hs[p].cmd = "list" /\ hs[p].pc = "done"
        /\ hs[p].trace[Len(hs[p].trace)] = Emit(Msg("no_nodes"))
        /\ DirComplete /\ Len(Records) = 3
        /\ instance_data.ambiguous_names # {}

\* the nodes whose instance query refresh h sent and got answered with 200
AnsweredNodes(h) ==
    {h.trace[k].params[1] : k \in {j \in 1..(Len(h.trace) - 1) :
        /\ h.trace[j].e = "request"
        /\ h.trace[j].endpoint = "/service/remote_service_instances"
        /\ h.trace[j + 1] = Response(TRUE)}}

\* the nodes whose instance query refresh h sent and got refused
FailedNodes(h) ==
    {h.trace[k].params[1] : k \in {j \in 1..(Len(h.trace) - 1) :
        /\ h.trace[j].e = "request"
        /\ h.trace[j].endpoint = "/service/remote_service_instances"
        /\ h.trace[j + 1] = Response(FALSE)}}

\* the panel's instances on these nodes
InstancesOn(nodes) == {i \in 1..MaxInst : panel[i].node \in nodes}

\* a refresh that got the node list has ended
RefreshEnded(h) ==
    h.cmd \in {"refresh", "list"} /\ h.pc \in {"done", "crashed"} /\ h.nodes # <<>>

C20_Idempotent ==
    [][(/\ lastBuild' # lastBuild
        /\ lastBuild.done
        /\ lastBuild'.heard = lastBuild.heard) => instance_data' = instance_data]_vars

\* the second list command rebuilt three records from the answers the first
\* one had heard, which differ from those of the refresh task before them
C20_Witness ==
    /\ lastBuild.done /\ lastBuild.same /\ ~ lastBuild.raised
    /\ lastBuild.by # 0 /\ hs[lastBuild.by].n = 2
    /\ hs[0].pc = "done" /\ hs[0].ret = "True"
    /\ SelectSeq(hs[0].trace, IsResponse) # lastBuild.heard
    /\ Len(Records) = 3

\* C28: whenever control is between two steps of the coroutines (the
\* refresh task, list commands), the directory is consistent: ambiguous_names
\* is the set of names carried by two or more records, name_to_id has the
\* names carried by exactly one record, the records are numbered 1..n, and
\* the keys of uuid_to_id are the uuids of the records.
C28_DirectoryConsistent ==
    /\ instance_data.ambiguous_names = {Records[i].name : i \in {j \in RecordIds : SharedName(j)}}
    /\ \A name \in Names \cup DOMAIN instance_data.name_to_id :
          name \in DOMAIN instance_data.name_to_id
            <=> (name \notin instance_data.ambiguous_names /\ Cardinality(Carriers(name)) = 1)
    /\ \A k \in RecordIds : Records[k].index = IntToStr(k)
    /\ DOMAIN instance_data.uuid_to_id = {Records[k].uuid : k \in RecordIds}

\* C31 as stated: after a completed refresh every record is resolved to its
\* own (daemon_id, uuid) by its index, by its uuid and, when its name is not
\* ambiguous, by its name; uuid_to_id maps its uuid to that pair.
C31_RoundTripAsStated ==
    DirComplete =>
        \A i \in RecordIds :
            /\ Resolve(Records[i].index) = PairOf(i)
            /\ Resolve(Records[i].uuid) = PairOf(i)
            /\ Records[i].name \notin instance_data.ambiguous_names =>
                  Resolve(Records[i].name.v) = PairOf(i)
            /\ instance_data.uuid_to_id[Records[i].uuid] = PairOf(i)

\* C31 amended: after a completed refresh every record is resolved to its own
\* (daemon_id, uuid) by its index; by its uuid unless the uuid is all digits;
\* and by its name when the name is not ambiguous and is looked up as a name
\* (a string without surrounding whitespace, not all digits, not in UUID
\* format); uuid_to_id maps its uuid to that pair.
C31_RoundTrip ==
    DirComplete =>
        \A i \in RecordIds :
            /\ Resolve(Records[i].index) = PairOf(i)
            /\ ~ IsDigit(Records[i].uuid) => Resolve(Records[i].uuid) = PairOf(i)
            /\ (Records[i].name \notin instance_data.ambiguous_names /\ PlainName(Records[i].name)) =>
                  Resolve(Records[i].name.v) = PairOf(i)
            /\ instance_data.uuid_to_id[Records[i].uuid] = PairOf(i)

\* three records on two nodes after a completed refresh: the last one, on the
\* other node than the first, carries a plain name of its own and a uuid with
\* a letter, and index, uuid and name all lead to it
C31_Witness ==
    /\ DirComplete
    /\ Len(Records) = 3
    /\ Records[1].daemon_id # Records[3].daemon_id
    /\ Records[3].name \notin instance_data.ambiguous_names
    /\ PlainName(Records[3].name)
    /\ ~ IsDigit(Records[3].uuid)
    /\ Resolve(Records[3].name.v) = PairOf(3)
    /\ Resolve(Records[3].uuid) = PairOf(3)
    /\ instance_data.uuid_to_id[Records[3].uuid] = PairOf(3)

-----------------------------------------------------------------------------
(* Specification of the commands: the cache holds a completed refresh of    *)
(* the panel, and start and stop commands run one after another while time  *)
(* passes.                                                                  *)

\* the panel of this specification: odd instances are named "Al" and live on
\* nB, even ones are named "2" and live on nA
OpsPanels ==
    {pn \in [1..MaxInst -> Placements] :
        \A i \in 1..MaxInst :
            /\ pn[i].name = IF i % 2 = 1 THEN NameAl ELSE Name2
            /\ pn[i].node = IF i % 2 = 1 THEN "nB" ELSE "nA"}

OpsConfig ==
    [filtered_nodes |-> {}, filtered_instance_keywords |-> <<>>, batch_interval |-> 2,
     log_size |-> LogSize(2)]

\* the cache after a refresh in which every node answered
RefreshedDirectory(cfg, pn) ==
    LET byNode == [n \in Nodes |-> CollectInstances(cfg, n, NodeInstances(pn, n)).list]
    IN RebuildCache(OverviewOrder, byNode).dir

IdOne == <<"1">>
IdTwo == <<"2">>
IdAl == <<"A", "l">>
IdX == <<"x">>
Idents == {IdOne, IdTwo, IdAl, IdX}

IdentSeqs == UNION {[1..n -> Idents] : n \in 0..MaxBatch}

InitOps ==
    /\ config = OpsConfig
    /\ panel \in OpsPanels
    /\ instance_data = RefreshedDirectory(config, panel)
    /\ cooldowns = EmptyMap
    /\ now = StartTime
    /\ hs = (1 :> IdleH)
    /\ lastBuild = [NoBuild EXCEPT !.done = TRUE]
    /\ lastSuccess = EmptyMap

NextOps ==
    \/ \E p \in DOMAIN hs, op \in {"start", "stop"}, identifiers \in IdentSeqs :
          StartStop(p, op, identifiers)
    \/ \E p \in DOMAIN hs : BatchFirstPause(p)
    \/ \E p \in DOMAIN hs : BatchWake(p)
    \/ \E p \in DOMAIN hs, resp \in Responses : BatchResponse(p, resp)
    \/ \E p \in DOMAIN hs : SingleRequest(p)
    \/ \E p \in DOMAIN hs, resp \in Responses : SingleResponse(p, resp)
    \/ \E p \in DOMAIN hs, identifier \in Idents, hasText \in BOOLEAN : Cmd(p, identifier, hasText)
    \/ \E p \in DOMAIN hs : CmdRequest(p)
    \/ \E p \in DOMAIN hs, resp \in Responses : CmdResponse(p, resp)
    \/ \E p \in DOMAIN hs : CmdWake(p)
    \/ \E p \in DOMAIN hs, r \in LogResponses : CmdLogResponse(p, r)
    \/ \E p \in DOMAIN hs, identifier \in Idents : Log(p, identifier)
    \/ \E p \in DOMAIN hs : LogRequest(p)
    \/ \E p \in DOMAIN hs, r \in LogResponses : LogResponse(p, r)
    \/ \E p \in DOMAIN hs : Return(p)
    \/ Tick

SpecOps == InitOps /\ [][NextOps]_vars

-----------------------------------------------------------------------------
(* Properties of the commands *)

IsBatch(h) == h.cmd = "batch"
Running(h) == h.cmd = "batch" /\ h.instances # <<>>
Count(h, kind) == Len(SelectSeq(h.trace, LAMBDA ev : ev.e = kind))
IsAmbiguous(ident) == Str(ident) \in instance_data.ambiguous_names

\* C3: an identifier that is an ambiguous name is never reported under the
\* not-found outcome, by any command: not by the not-found reply of a single
\* command, nor by the none-resolved failure or the unresolved list of a batch.
C3_AmbiguityReported ==
    \A p \in DOMAIN hs :
        LET h == hs[p]
            msgs == Emitted(h)
        IN \A k \in 1..Len(msgs) :
             LET m == msgs[k].msg IN
             /\ m.kind = "not_found" => ~ IsAmbiguous(h.identifiers[1])
             /\ m.kind = "none_resolved" =>
                   \A i \in 1..Len(h.identifiers) : ~ IsAmbiguous(h.identifiers[i])
             /\ m.kind = "batch_summary" =>
                   \A i \in 1..Len(m.unresolved) : ~ IsAmbiguous(m.unresolved[i])

\* C4: an attempt (the cooldown check of a single command or of a batch item)
\* finds the instance cooling down exactly when a start/stop of that instance
\* was answered with success less than 10 seconds before; it then issues no
\* request, and otherwise the request follows before anything else.
C4_Cooldown ==
    [][\A p \in DOMAIN hs : hs'[p] # hs[p] =>
        LET step == hs'[p].step IN
        /\ \A k \in 1..Len(step) : step[k].e = "check" =>
              /\ step[k].cooling <=>
                    (step[k].id \in DOMAIN lastSuccess /\ now - lastSuccess[step[k].id] < 10)
              /\ step[k].cooling => \A j \in 1..Len(step) : step[j].e # "request"
              /\ ~ step[k].cooling =>
                    \/ hs'[p].pc = "single_yield"
                    \/ \E j \in 1..Len(step) :
                          step[j].e = "request" /\ step[j].params[1] = step[k].id
        /\ hs[p].pc = "single_yield" =>
              \E j \in 1..Len(step) :
                  step[j].e = "request" /\ step[j].params[1] = hs[p].ids[2]]_vars

\* one batch dispatched to an instance, skipped it inside the quiet period and
\* dispatched to it again once ten seconds had passed
C4_Witness ==
    \E p \in DOMAIN hs :
        LET checks == SelectSeq(hs[p].trace, LAMBDA ev : ev.e = "check") IN
        /\ Len(checks) = 3
        /\ checks[1].id = checks[2].id /\ checks[2].id = checks[3].id
        /\ ~ checks[1].cooling /\ checks[2].cooling /\ ~ checks[3].cooling
        /\ hs[p].pc = "batch_wait"
        /\ now - lastSuccess[checks[3].id] >= 10

MixedTypes(identifiers) ==
    \E i \in 1..Len(identifiers) :
        DetectIdentifierType(identifiers[i]) # DetectIdentifierType(identifiers[1])

\* C5: a batch whose identifiers do not all classify as the first one ends with
\* the mixed-types message alone: no identifier is resolved, no request is
\* issued, and the cooldowns are as before.
C5_MixedTypes ==
    [][\A p \in DOMAIN hs :
        (hs'[p] # hs[p] /\ IsBatch(hs'[p]) /\ MixedTypes(hs'[p].identifiers)) =>
            /\ hs'[p].trace = <<Emit(Msg("mixed_types"))>>
            /\ hs'[p].pc = "done"
            /\ cooldowns' = cooldowns]_vars

C5_Witness ==
    \E p \in DOMAIN hs :
        /\ IsBatch(hs[p]) /\ MixedTypes(hs[p].identifiers)
        /\ Len(hs[p].identifiers) = 3
        /\ GetInstanceByIdentifier(instance_data, config, hs[p].identifiers[1]) # None
        /\ hs[p].pc = "done"

IsProgress(ev) == ev.e = "emit" /\ ev.msg.kind \in {"skipped", "failed", "sent"}

RECURSIVE IsSubseq(_, _)
IsSubseq(a, b) ==
    IF a = <<>> THEN TRUE
    ELSE IF b = <<>> THEN FALSE
    ELSE IF Head(a) = Head(b) THEN IsSubseq(Tail(a), Tail(b))
    ELSE IsSubseq(a, Tail(b))

\* the (uuid, daemon) targets of the identifiers that resolve, in input order
ResolvedTargets(identifiers) ==
    LET Found(ident) == Resolve(ident) # None
        found == SelectSeq(identifiers, Found)
    IN [i \in 1..Len(found) |-> <<Resolve(found[i])[2], Resolve(found[i])[1]>>]

\* C7: the requests of a batch go to resolved items in input order, at most
\* one per item, and each request but the first follows the answer to the one
\* before it.
C7_RequestOrder ==
    \A p \in DOMAIN hs :
        LET h == hs[p]
            reqs == Requests(h)
            net == SelectSeq(h.trace, LAMBDA ev : ev.e \in {"request", "response"})
        IN IsBatch(h) =>
            /\ IsSubseq([i \in 1..Len(reqs) |-> reqs[i].params], ResolvedTargets(h.identifiers))
            /\ \A i \in 1..Len(net) : net[i].e = IF i % 2 = 1 THEN "request" ELSE "response"

C7_Witness ==
    \E p \in DOMAIN hs :
        LET reqs == Requests(hs[p]) IN
        /\ IsBatch(hs[p]) /\ hs[p].pc = "done"
        /\ Len(reqs) = 3
        /\ reqs[1].params # reqs[2].params
        /\ Len(hs[p].failed) = 0

\* C8: a batch over n items pauses n times: once after the announcement and
\* once after each item but the last, dispatched or skipped.
C8_Pauses ==
    \A p \in DOMAIN hs :
        LET h == hs[p] IN
        Running(h) =>
            /\ h.pc = "done" => Count(h, "pause") = Len(h.instances)
            /\ ~ (h.pc = "batch_sleep" /\ h.idx = Len(h.instances))

\* the text the panel gave with a failure
PanelErrorText(resp) == IF resp.data # "" THEN resp.data ELSE resp.error

\* C9: the summary of a finished batch counts every resolved item once, as a
\* success (answered with status 200) or as a failure (another answer, or a
\* cooldown skip); fail_details has one line per failure, in item order, with
\* the instance's name and the panel's text; unresolved identifiers are in
\* neither count.
C9_Summary ==
    \A p \in DOMAIN hs :
        LET h == hs[p]
            m == h.trace[Len(h.trace)].msg
            outcomes == SelectSeq(h.trace,
                          LAMBDA ev : ev.e = "response" \/ (ev.e = "check" /\ ev.cooling))
            Failed(i) == outcomes[i].e = "check" \/ ~ outcomes[i].ok
            failures == {i \in 1..Len(outcomes) : Failed(i)}
            Rank(i) == Cardinality({j \in failures : j <= i})
        IN (Running(h) /\ h.pc = "done") =>
            /\ Len(outcomes) = Len(h.instances)
            /\ m.success + m.fail = Len(h.instances)
            /\ m.fail = Cardinality(failures)
            /\ Len(h.instances) + Len(m.unresolved) = Len(h.identifiers)
            /\ Len(m.fail_details) = m.fail
            /\ \A i \in failures :
                  /\ m.fail_details[Rank(i)].name = h.instances[i].instance_name
                  /\ m.fail_details[Rank(i)].text =
                        IF outcomes[i].e = "check" THEN "too_fast"
                        ELSE PanelErrorText(outcomes[i].resp)

\* three resolved items: the first and the third succeed, the second fails
C9_Witness ==
    \E p \in DOMAIN hs :
        LET h == hs[p] IN
        /\ Running(h) /\ h.pc = "done"
        /\ Len(h.instances) = 3
        /\ h.success_count = 2 /\ h.fail_count = 1
        /\ h.result_messages[2].kind = "failed"
        /\ h.fail_details[1].text = "D"

\* the instance the last request of a handler was for
LastTarget(h) == Requests(h)[Len(Requests(h))].params[1]

\* a step in which handler p received a success answer to a start/stop
SuccessAnswer(p) ==
    /\ hs[p].pc \in {"single_wait", "batch_wait"}
    /\ hs'[p] # hs[p]
    /\ \E k \in 1..Len(hs'[p].step) : hs'[p].step[k].e = "response" /\ hs'[p].step[k].ok

\* C14: the cooldown time of an instance is set to the current time by a
\* step that receives a success answer to a start/stop of that instance, once
\* and for that instance only; no other step (a failure answer, a cooldown
\* skip, a failed lookup, any other command) changes any cooldown time.
C14_CooldownSet ==
    [][\A p \in DOMAIN hs :
          IF SuccessAnswer(p)
          THEN LET id == LastTarget(hs[p]) IN
               /\ DOMAIN cooldowns' = DOMAIN cooldowns \cup {id}
               /\ cooldowns'[id] = now
               /\ \A x \in DOMAIN cooldowns \ {id} : cooldowns'[x] = cooldowns[x]
          ELSE cooldowns' = cooldowns]_vars

\* a batch of three: one success that set the time, one cooldown skip and
\* one failure answer that left the times alone
C14_Witness ==
    \E p \in DOMAIN hs :
        LET h == hs[p] IN
        /\ IsBatch(h) /\ h.pc = "done"
        /\ h.success_count = 1 /\ h.fail_count = 2
        /\ \E i, j \in 1..2 : h.fail_details[i].text = "too_fast" /\ h.fail_details[j].text # "too_fast"
        /\ Cardinality(DOMAIN cooldowns) = 1
        /\ \A x \in DOMAIN cooldowns : cooldowns[x] > StartTime

\* C16: a batch of identifiers of one type of which none resolves ends in its
\* first step with the none-resolved message alone: no announcement, no
\* pause, no request, and the cooldown times and the cache stay as they were.
C16_NoneResolved ==
    [][\A p \in DOMAIN hs :
        (/\ hs'[p] # hs[p]
         /\ IsBatch(hs'[p])
         /\ ~ MixedTypes(hs'[p].identifiers)
         /\ \A i \in 1..Len(hs'[p].identifiers) : Resolve(hs'[p].identifiers[i]) = None) =>
            /\ hs'[p].pc = "done"
            /\ Emitted(hs'[p]) = <<Emit(Msg("none_resolved"))>>
            /\ Count(hs'[p], "pause") = 0
            /\ Count(hs'[p], "request") = 0
            /\ cooldowns' = cooldowns
            /\ instance_data' = instance_data]_vars

\* after an earlier command set a cooldown time, a batch of three names, an
\* ambiguous one among them, resolved nothing
C16_Witness ==
    \E p \in DOMAIN hs :
        /\ IsBatch(hs[p]) /\ hs[p].pc = "done"
        /\ hs[p].identifiers = <<IdX, IdAl, IdX>>
        /\ Emitted(hs[p]) = <<Emit(Msg("none_resolved"))>>
        /\ cooldowns # EmptyMap

\* the outcomes of the items of a batch, read off the checks, requests and
\* answers of its trace: per item a cooldown skip, or a dispatch that is
\* pending or was answered; "bad" for any other sequence of events
RECURSIVE ItemOutcomes(_)
ItemOutcomes(ev) ==
    IF ev = <<>> THEN <<>>
    ELSE IF ev[1].e = "check" /\ ev[1].cooling
    THEN <<[id |-> ev[1].id, o |-> "skipped"]>> \o ItemOutcomes(Tail(ev))
    ELSE IF /\ ev[1].e = "check" /\ Len(ev) >= 2
            /\ ev[2].e = "request" /\ ev[2].params[1] = ev[1].id
    THEN IF Len(ev) = 2 THEN <<[id |-> ev[1].id, o |-> "dispatched"]>>
         ELSE IF ev[3].e = "response"
         THEN <<[id |-> ev[1].id, o |-> IF ev[3].ok THEN "sent" ELSE "failed"]>>
                 \o ItemOutcomes(SubSeq(ev, 4, Len(ev)))
         ELSE <<[id |-> ev[1].id, o |-> "bad"]>>
    ELSE <<[id |-> "none", o |-> "bad"]>>

\* C25: each item of a batch, in turn, is either skipped for its cooldown
\* without a request, or dispatched and then answered with success or
\* failure; it ends in exactly one of the three, is recorded once with a line
\* of that kind (the skip line differs from the failure line), counts once as
\* a success or a failure, and after a skip or a failure the batch goes on to
\* the next item.
C25_ItemStates ==
    \A p \in DOMAIN hs :
        LET h == hs[p]
            ev == SelectSeq(h.trace, LAMBDA e : e.e \in {"check", "request", "response"})
            out == ItemOutcomes(ev)
            ended == {i \in 1..Len(out) : out[i].o \in {"skipped", "sent", "failed"}}
        IN Running(h) =>
            /\ \A i \in 1..Len(out) : out[i].o # "bad" /\ out[i].id = h.instances[i].instance_id
            /\ Len(out) = h.idx
            /\ Len(h.result_messages) = Cardinality(ended)
            /\ \A i \in ended : h.result_messages[i].kind = out[i].o
            /\ h.success_count = Cardinality({i \in ended : out[i].o = "sent"})
            /\ h.fail_count = Cardinality({i \in ended : out[i].o # "sent"})
            /\ h.pc = "done" => ended = 1..Len(h.instances)

\* a finished batch of three items: sent, skipped for the cooldown, failed
C25_Witness ==
    \E p \in DOMAIN hs :
        LET h == hs[p] IN
        /\ Running(h) /\ h.pc = "done"
        /\ [i \in 1..Len(h.result_messages) |-> h.result_messages[i].kind] =
              <<"sent", "skipped", "failed">>

-----------------------------------------------------------------------------
(* Specification of the lookups: the commands over a cache in which digit   *)
(* strings are display names.                                               *)

Name7 == Str(<<"7">>)
Name0 == Str(<<"0">>)

\* odd instances live on nB and even ones on nA; the even ones are named "0",
\* the first one "7", the other odd ones all "7" or all "Al"
LookupPanels ==
    {[i \in 1..MaxInst |->
        [node |-> IF i % 2 = 1 THEN "nB" ELSE "nA",
         name |-> IF i % 2 = 0 THEN Name0 ELSE IF i = 1 THEN Name7 ELSE third]] :
     third \in {Name7, NameAl}}

IdSeven == <<"7">>
IdZero == <<"0">>
LookupIdents == {IdSeven, IdZero, IdOne, IdTwo}
LookupSeqs == UNION {[1..n -> LookupIdents] : n \in 0..2}

InitLookup ==
    /\ config = OpsConfig
    /\ panel \in LookupPanels
    /\ instance_data = RefreshedDirectory(config, panel)
    /\ cooldowns = EmptyMap
    /\ now = StartTime
    /\ hs = (1 :> [IdleH EXCEPT !.n = MaxCommands - 1])   \* one command left
    /\ lastBuild = [NoBuild EXCEPT !.done = TRUE]
    /\ lastSuccess = EmptyMap

NextLookup ==
    \/ \E p \in DOMAIN hs, op \in {"start", "stop"}, identifiers \in LookupSeqs :
          StartStop(p, op, identifiers)
    \/ \E p \in DOMAIN hs : BatchFirstPause(p)
    \/ \E p \in DOMAIN hs : BatchWake(p)
    \/ \E p \in DOMAIN hs, resp \in Responses : BatchResponse(p, resp)
    \/ \E p \in DOMAIN hs : SingleRequest(p)
    \/ \E p \in DOMAIN hs, resp \in Responses : SingleResponse(p, resp)
    \/ \E p \in DOMAIN hs, identifier \in LookupIdents, hasText \in BOOLEAN :
          Cmd(p, identifier, hasText)
    \/ \E p \in DOMAIN hs : CmdRequest(p)
    \/ \E p \in DOMAIN hs, resp \in Responses : CmdResponse(p, resp)
    \/ \E p \in DOMAIN hs : CmdWake(p)
    \/ \E p \in DOMAIN hs, r \in LogResponses : CmdLogResponse(p, r)
    \/ \E p \in DOMAIN hs, identifier \in LookupIdents : Log(p, identifier)
    \/ \E p \in DOMAIN hs : LogRequest(p)
    \/ \E p \in DOMAIN hs, r \in LogResponses : LogResponse(p, r)
    \/ \E p \in DOMAIN hs : Return(p)
    \/ Tick

SpecLookup == InitLookup /\ [][NextLookup]_vars

\* an all-digit identifier whose value is 0 or beyond the last record
OutOfRange(ident) ==
    IsDigit(ident) /\ (ToInt(ident) = 0 \/ ToInt(ident) > Len(Records))

\* C13: a command given an all-digit identifier that is out of range answers
\* not-found and never the name-collision message, and a batch lists such an
\* identifier as unresolved, whatever names the records carry.
C13_OutOfRange ==
    \A p \in DOMAIN hs :
        LET h == hs[p]
            msgs == Emitted(h)
        IN /\ (h.cmd \in {"single", "cmd", "log"} /\ h.identifiers # <<>>
                 /\ OutOfRange(h.identifiers[1])) =>
                  \A k \in 1..Len(msgs) : msgs[k].msg.kind \in {"not_found", "usage"}
           /\ (IsBatch(h) /\ ~ MixedTypes(h.identifiers)) =>
                  \A i \in 1..Len(h.identifiers) : OutOfRange(h.identifiers[i]) =>
                      \E j \in 1..Len(h.failed) : h.failed[j] = h.identifiers[i]

\* C15: a batch whose identifiers are of one type puts each identifier, in
\* input order and duplicates included, either in the resolved list (with the
\* daemon, uuid and display name of the record it resolves to) or in the
\* unresolved list; the two lengths sum to the number of identifiers.
C15_Partition ==
    \A p \in DOMAIN hs :
        LET h == hs[p]
            Found(ident) == Resolve(ident) # None
            NotFound(ident) == Resolve(ident) = None
            res == SelectSeq(h.identifiers, Found)
        IN (IsBatch(h) /\ ~ MixedTypes(h.identifiers)) =>
            /\ Len(h.instances) = Len(res)
            /\ \A i \in 1..Len(res) :
                  /\ h.instances[i].ident = res[i]
                  /\ <<h.instances[i].daemon_id, h.instances[i].instance_id>> = Resolve(res[i])
                  /\ \E k \in RecordIds :
                        /\ PairOf(k) = Resolve(res[i])
                        /\ h.instances[i].instance_name = Records[k].name
            /\ h.failed = SelectSeq(h.identifiers, NotFound)
            /\ Len(h.instances) + Len(h.failed) = Len(h.identifiers)

\* a batch of an out-of-range number and a valid one: one unresolved, one item
C15_Witness ==
    \E p \in DOMAIN hs :
        /\ IsBatch(hs[p])
        /\ hs[p].identifiers = <<IdSeven, IdTwo>>
        /\ Len(hs[p].instances) = 1 /\ hs[p].failed = <<IdSeven>>
        /\ hs[p].instances[1].instance_name = Name7

-----------------------------------------------------------------------------
(* Specification of the allow-list: the refreshes of SpecDir over string    *)
(* names, with keyword lists that hold an empty keyword.                    *)

FilterKeywordLists == {<<>>, <<<<"a", "L">>>>, <<<<>>>>}
FilterNames == {NameAl, Name2}
FilterPlacements == {Absent} \cup [node : Nodes, name : FilterNames]

InitFilter ==
    /\ instance_data = EmptyDirectory
    /\ cooldowns = EmptyMap
    /\ now = StartTime
    /\ config \in [filtered_nodes : {{}}, filtered_instance_keywords : FilterKeywordLists,
                    batch_interval : {2}, log_size : {LogSize(2)}]
    /\ panel \in [1..MaxInst -> FilterPlacements]
    /\ hs = (0 :> [IdleH EXCEPT !.pc = "start", !.cmd = "refresh"]) @@ (1 :> IdleH)
    /\ lastBuild = NoBuild
    /\ lastSuccess = EmptyMap

SpecFilter == InitFilter /\ [][NextDir]_vars

\* the allow-list as claimed: with no keyword everything survives, else a
\* name survives iff it contains a keyword, whatever the letters' case
NameSurvives(kws, name) ==
    kws = <<>> \/ \E k \in 1..Len(kws) : Contains(Lower(name.v), Lower(kws[k]))

\* C19: the records a refresh leaves are those of the instances (of the nodes
\* that answered) whose name survives the allow-list as claimed, for every
\* keyword list and every name.
C19_AllowList ==
    [][\A p \in DOMAIN hs :
        LET h == hs'[p]
            recs == instance_data'.instances
        IN (hs'[p] # hs[p] /\ RefreshEnded(h)) =>
              {recs[k].uuid : k \in 1..Len(recs)} =
                 {UuidOf(i) : i \in {j \in InstancesOn(AnsweredNodes(h)) :
                     NameSurvives(config.filtered_instance_keywords, panel[j].name)}}]_vars

-----------------------------------------------------------------------------
(* Specification of the classification: the commands over tokens of every   *)
(* kind, one command per behaviour.                                         *)

IdSup == <<SuperTwo>>
IdUuid == UuidOf(1)
IdDigitUuid == UuidOf(2)                         \* 32 decimal digits
IdHyphenUuid == Rep("a", 8) \o <<"-">> \o Rep("a", UuidLen - 8)
IdShortHex == Rep("a", UuidLen - 1)
Tokens == {IdOne, IdAl, IdSup, IdUuid, IdDigitUuid, IdHyphenUuid, IdShortHex}
TokenSeqs == UNION {[1..n -> Tokens] : n \in 0..2}

InitClassify ==
    /\ config = OpsConfig
    /\ panel \in OpsPanels
    /\ instance_data = RefreshedDirectory(config, panel)
    /\ cooldowns = EmptyMap
    /\ now = StartTime
    /\ hs = (1 :> [IdleH EXCEPT !.n = MaxCommands - 1])   \* one command left
    /\ lastBuild = [NoBuild EXCEPT !.done = TRUE]
    /\ lastSuccess = EmptyMap

NextClassify ==
    \/ \E p \in DOMAIN hs, op \in {"start", "stop"}, identifiers \in TokenSeqs :
          StartStop(p, op, identifiers)
    \/ \E p \in DOMAIN hs : BatchFirstPause(p)
    \/ \E p \in DOMAIN hs : BatchWake(p)
    \/ \E p \in DOMAIN hs, resp \in Responses : BatchResponse(p, resp)
    \/ \E p \in DOMAIN hs : SingleRequest(p)
    \/ \E p \in DOMAIN hs, resp \in Responses : SingleResponse(p, resp)
    \/ \E p \in DOMAIN hs, identifier \in Tokens, hasText \in BOOLEAN :
          Cmd(p, identifier, hasText)
    \/ \E p \in DOMAIN hs : CmdRequest(p)
    \/ \E p \in DOMAIN hs, resp \in Responses : CmdResponse(p, resp)
    \/ \E p \in DOMAIN hs : CmdWake(p)
    \/ \E p \in DOMAIN hs, r \in LogResponses : CmdLogResponse(p, r)
    \/ \E p \in DOMAIN hs, identifier \in Tokens : Log(p, identifier)
    \/ \E p \in DOMAIN hs : LogRequest(p)
    \/ \E p \in DOMAIN hs, r \in LogResponses : LogResponse(p, r)
    \/ \E p \in DOMAIN hs : Return(p)
    \/ Tick

SpecClassify == InitClassify /\ [][NextClassify]_vars

\* the classification as claimed
ClaimedType(t) ==
    LET cleaned == SelectSeq(t, LAMBDA c : c # "-") IN
    IF \A i \in 1..Len(t) : t[i] \in Digits THEN "number"
    ELSE IF Len(cleaned) = 32 /\ \A i \in 1..Len(cleaned) : cleaned[i] \in HexChars THEN "uuid"
    ELSE "name"

\* whether a lookup of t finds a record when t is looked up as its claimed type
ClaimedFound(t) ==
    CASE ClaimedType(t) = "number" -> 0 < ToInt(t) /\ ToInt(t) <= Len(Records)
      [] ClaimedType(t) = "uuid" -> t \in DOMAIN instance_data.uuid_to_id
      [] OTHER -> /\ Str(t) \notin instance_data.ambiguous_names
                  /\ Str(t) \in DOMAIN instance_data.name_to_id

IsLookupFailure(ev) == ev.e = "emit" /\ ev.msg.kind \in {"not_found", "ambiguous_name"}

\* C21: a token classifies as a number iff all its characters are decimal
\* digits, else as a uuid iff it has 32 hexadecimal characters once hyphens are
\* removed, else as a name: a batch is refused as mixed exactly when the
\* claimed types of its tokens differ, and a command with one token looks it
\* up as its claimed type (an index, a uuid, a name) and finds it or not
\* accordingly.
C21_Classification ==
    \A p \in DOMAIN hs :
        LET h == hs[p] IN
        /\ IsBatch(h) =>
              ((h.trace = <<Emit(Msg("mixed_types"))>>) <=>
                  \E i \in 1..Len(h.identifiers) :
                      ClaimedType(h.identifiers[i]) # ClaimedType(h.identifiers[1]))
        /\ (h.cmd \in {"single", "cmd", "log"} /\ Count(h, "resolve") = 1) =>
              /\ h.pc # "crashed"
              /\ (SelectSeq(h.trace, IsLookupFailure) = <<>>) <=> ClaimedFound(h.identifiers[1])

-----------------------------------------------------------------------------
(* Specification of the reports: log and status commands, one after         *)
(* another, for every setting of log_size.                                  *)

\* log_size is absent from the configuration
LogSizeUnset == [set |-> FALSE, v |-> 0]
LogSizes == {LogSizeUnset, LogSize(0), LogSize(2), LogSize(5)}

InitLog ==
    /\ config \in {[OpsConfig EXCEPT !.log_size = size] : size \in LogSizes}
    /\ panel \in OpsPanels
    /\ instance_data = RefreshedDirectory(config, panel)
    /\ cooldowns = EmptyMap
    /\ now = StartTime
    /\ hs = (1 :> IdleH)
    /\ lastBuild = [NoBuild EXCEPT !.done = TRUE]
    /\ lastSuccess = EmptyMap

NextLog ==
    \/ \E p \in DOMAIN hs, identifier \in Idents : Log(p, identifier)
    \/ \E p \in DOMAIN hs : LogRequest(p)
    \/ \E p \in DOMAIN hs, r \in LogResponses : LogResponse(p, r)
    \/ \E p \in DOMAIN hs : Status(p)
    \/ \E p \in DOMAIN hs, shape \in StatusShapes : StatusResponse(p, shape)
    \/ \E p \in DOMAIN hs : Return(p)

SpecLog == InitLog /\ [][NextLog]_vars

\* C22: no exception leaves a handler: whatever the panel answers and
\* whatever the configuration (an unset log_size included), a command ends by
\* emitting a message.
C22_NoException ==
    \A p \in DOMAIN hs : hs[p].pc # "crashed"

Min(a, b) == IF a < b THEN a ELSE b

\* the answer a log handler received
LogAnswer(h) == SelectSeq(h.trace, IsResponse)[1].resp

\* C23: with log_size = N >= 0 and an upstream log of L lines, the log
\* message holds exactly the last min(N, L) lines of the log, in their order.
C23_LastLines ==
    \A p \in DOMAIN hs :
        LET h == hs[p]
            last == h.trace[Len(h.trace)]
            N == config.log_size.v
            upstream == LogAnswer(h).lines
            L == Len(upstream)
        IN (h.cmd = "log" /\ h.pc = "done" /\ config.log_size.set /\ last.msg.kind = "log") =>
              /\ last.msg.count = Min(N, L)
              /\ last.msg.lines = SubSeq(upstream, L - Min(N, L) + 1, L)

-----------------------------------------------------------------------------
(* Specification of the interleavings: after a completed refresh, one       *)
(* operator sends a start/stop command (single or batch) and another sends  *)
(* a single start/stop or a list command; the two handlers interleave at    *)
(* their suspension points.                                                 *)

ConcSeqs == UNION {[1..n -> {IdOne, IdTwo}] : n \in 1..2}

InitConc ==
    /\ config = OpsConfig
    /\ panel \in OpsPanels
    /\ instance_data = RefreshedDirectory(config, panel)
    /\ cooldowns = EmptyMap
    /\ now = StartTime
    /\ hs = (1 :> [IdleH EXCEPT !.n = MaxCommands - 1]) @@
            (2 :> [IdleH EXCEPT !.n = MaxCommands - 1])
    /\ lastBuild = [NoBuild EXCEPT !.done = TRUE]
    /\ lastSuccess = EmptyMap

NextConc ==
    \/ \E op \in {"start", "stop"}, identifiers \in ConcSeqs : StartStop(1, op, identifiers)
    \/ \E op \in {"start", "stop"}, identifier \in {IdOne, IdTwo} : StartStop(2, op, <<identifier>>)
    \/ ListStart(2)
    \/ \E p \in DOMAIN hs : ListOverviewRequest(p)
    \/ \E p \in DOMAIN hs, r \in {"error", "ok"} : OverviewResponse(p, r)
    \/ \E p \in DOMAIN hs, ok \in BOOLEAN : NodeResponse(p, ok)
    \/ \E p \in DOMAIN hs : BatchFirstPause(p)
    \/ \E p \in DOMAIN hs : BatchWake(p)
    \/ \E p \in DOMAIN hs, resp \in Responses : BatchResponse(p, resp)
    \/ \E p \in DOMAIN hs : SingleRequest(p)
    \/ \E p \in DOMAIN hs, resp \in Responses : SingleResponse(p, resp)
    \/ \E p \in DOMAIN hs : Return(p)
    \/ now < StartTime + ConcElapsed /\ Tick

SpecConc == InitConc /\ [][NextConc]_vars

-----------------------------------------------------------------------------
(* Properties of the interleavings *)

HasEvent(step, kind) == \E k \in 1..Len(step) : step[k].e = kind

\* C24: a step in which a handler resolves identifiers, with or without
\* success, issues no panel request and leaves the directory and the cooldown
\* times as they were; the directory changes only in a step of the refresh
\* task or of a list command.
C24_ResolveFrame ==
    [][/\ \A p \in DOMAIN hs :
            (hs'[p] # hs[p] /\ HasEvent(hs'[p].step, "resolve")) =>
                /\ ~ HasEvent(hs'[p].step, "request")
                /\ instance_data' = instance_data
                /\ cooldowns' = cooldowns
       /\ instance_data' # instance_data =>
            \E p \in DOMAIN hs : hs'[p] # hs[p] /\ hs'[p].cmd \in {"refresh", "list"}]_vars

\* after a list command rebuilt the directory from one node only, a single
\* start of "2" found no record and went no further
C24_Witness ==
    /\ lastBuild.by = 2
    /\ Len(Records) = 1
    /\ hs[1].cmd = "single" /\ hs[1].pc = "done"
    /\ hs[1].identifiers = <<IdTwo>>
    /\ SelectSeq(hs[1].trace, IsLookupFailure) # <<>>

Dispatching(h) == h.pc \in {"single_wait", "batch_wait"}

\* C27: two start/stop requests for one instance are never both issued within
\* one 10-second window: while a handler that passed the cooldown check for X
\* waits for the answer to its request for X, no other handler has a request
\* for X in flight.
C27_NoDoubleDispatch ==
    \A p, q \in DOMAIN hs :
        (p # q /\ Dispatching(hs[p]) /\ Dispatching(hs[q])) =>
            LastTarget(hs[p]) # LastTarget(hs[q])

\* the items of a batch as the directory dir resolves its identifiers
ItemsResolvedIn(dir, identifiers) ==
    LET Found(ident) == GetInstanceByIdentifier(dir, config, ident) \notin {None, Raised}
        found == SelectSeq(identifiers, Found)
    IN [i \in 1..Len(found) |->
          LET ids == GetInstanceByIdentifier(dir, config, found[i])
              k == CHOOSE k \in 1..Len(dir.instances) : dir.instances[k].uuid = ids[2]
          IN [ident |-> found[i], daemon_id |-> ids[1], instance_id |-> ids[2],
              instance_name |-> dir.instances[k].name]]

\* C29: the items of a batch are those its identifiers resolve to in the
\* directory of the step that begins the batch; afterwards the items stay as
\* they are whatever happens to the directory, every request goes to the item
\* whose turn it is, and the summary names the items by their kept names.
C29_TargetsFixed ==
    [][\A p \in DOMAIN hs :
        LET h == hs'[p]
            step == h.step
        IN (hs'[p] # hs[p] /\ IsBatch(h) /\ ~ MixedTypes(h.identifiers)) =>
            /\ h.instances = IF hs[p].pc = "idle"
                             THEN ItemsResolvedIn(instance_data, h.identifiers)
                             ELSE hs[p].instances
            /\ \A k \in 1..Len(step) :
                  /\ step[k].e = "request" =>
                        step[k].params = <<h.instances[h.idx].instance_id,
                                           h.instances[h.idx].daemon_id>>
                  /\ (step[k].e = "emit" /\ step[k].msg.kind = "batch_summary") =>
                        /\ Len(step[k].msg.lines) = Len(h.instances)
                        /\ \A i \in 1..Len(h.instances) :
                              step[k].msg.lines[i].name = h.instances[i].instance_name]_vars

\* a batch of "1" and "2" has dispatched to its first item and sleeps; a list
\* command has meanwhile rebuilt the directory, in which "2" no longer
\* resolves to the second item
C29_Witness ==
    /\ IsBatch(hs[1]) /\ hs[1].pc = "batch_sleep" /\ hs[1].idx = 1
    /\ Len(hs[1].instances) = 2
    /\ Len(Requests(hs[1])) = 1
    /\ lastBuild.by = 2
    /\ Resolve(hs[1].instances[2].ident) #
          <<hs[1].instances[2].daemon_id, hs[1].instances[2].instance_id>>
    /\ Resolve(hs[1].instances[2].ident) # None

-----------------------------------------------------------------------------
(* Specification of a batch to its end: one start/stop command; every       *)
(* request is answered and every sleep ends.                                *)

LiveSeqs == UNION {[1..n -> {IdOne, IdTwo}] : n \in 1..MaxBatch}

\* the event loop's clock goes on while a coroutine sleeps
Clock ==
    /\ \E p \in DOMAIN hs : hs[p].pc = "batch_sleep" /\ now < hs[p].wake
    /\ now' = now + 1
    /\ UNCHANGED <<instance_data, cooldowns, config, panel, hs, lastBuild, lastSuccess>>

InitLive ==
    /\ config = OpsConfig
    /\ panel \in OpsPanels
    /\ instance_data = RefreshedDirectory(config, panel)
    /\ cooldowns = EmptyMap
    /\ now = StartTime
    /\ hs = (1 :> [IdleH EXCEPT !.n = MaxCommands - 1])   \* one command
    /\ lastBuild = [NoBuild EXCEPT !.done = TRUE]
    /\ lastSuccess = EmptyMap

NextLive ==
    \/ \E op \in {"start", "stop"}, identifiers \in LiveSeqs : StartStop(1, op, identifiers)
    \/ BatchFirstPause(1)
    \/ BatchWake(1)
    \/ \E resp \in Responses : BatchResponse(1, resp)
    \/ SingleRequest(1)
    \/ \E resp \in Responses : SingleResponse(1, resp)
    \/ Return(1)
    \/ Clock

\* asyncio resumes a coroutine whose sleep is over, make_mcsm_request returns
\* an answer or a timeout for every request, and time passes
SpecLive ==
    /\ InitLive
    /\ [][NextLive]_vars
    /\ WF_vars(BatchFirstPause(1))
    /\ WF_vars(BatchWake(1))
    /\ WF_vars(\E resp \in Responses : BatchResponse(1, resp))
    /\ WF_vars(Clock)

IsSummary(ev) == ev.e = "emit" /\ ev.msg.kind = "batch_summary"

\* a batch at its end: every item has its line, and one summary was emitted
BatchEnded(h) ==
    /\ Running(h) /\ h.pc = "done"
    /\ Len(h.result_messages) = Len(h.instances)
    /\ Len(SelectSeq(h.trace, IsSummary)) = 1

\* C26: when every request is answered and every sleep ends, a batch that
\* has announced its start reaches its end: every resolved item has been
\* skipped, sent or failed, and exactly one summary is emitted, however many
\* items fail or are skipped.
C26_BatchCompletes ==
    (hs[1].pc = "batch_announced") ~> BatchEnded(hs[1])

\* a batch ended after its first item failed and its third was skipped
C26_Witness ==
    /\ BatchEnded(hs[1])
    /\ [i \in 1..Len(hs[1].result_messages) |-> hs[1].result_messages[i].kind] =
          <<"failed", "sent", "skipped">>

-----------------------------------------------------------------------------
(* Specification of the authorisation: op and deop by an administrator, and *)
(* the permission check at the head of the other commands.                  *)

IdEight == <<"8">>
UserIds == {IdSeven, IdEight}
Groups == {"g"}

\* who sends a command: is_admin(), get_sender_id(), message_obj.group_id
\* ("" in a private chat)
Requesters == [admin : BOOLEAN, user : UserIds, group : {""} \cup Groups]

AuthConfig(users, groups) ==
    [filtered_nodes |-> {}, filtered_instance_keywords |-> <<>>, batch_interval |-> 2,
     log_size |-> LogSize(2), authorized_users |-> users, authorized_groups |-> groups]

\* `x in list`
InList(list, x) == \E i \in 1..Len(list) : list[i] = x

\* list.remove(x): the first occurrence goes
RemoveFirst(list, x) ==
    LET k == CHOOSE k \in 1..Len(list) : list[k] = x /\ \A j \in 1..(k - 1) : list[j] # x
    IN SubSeq(list, 1, k - 1) \o SubSeq(list, k + 1, Len(list))

\* is_admin_or_authorized
IsAdminOrAuthorized(cfg, who) ==
    IF who.admin THEN TRUE
    ELSE IF cfg.authorized_groups = <<>> /\ cfg.authorized_users = <<>> THEN TRUE
    ELSE IF cfg.authorized_groups # <<>> /\ who.group # "" /\ InList(cfg.authorized_groups, who.group)
    THEN TRUE
    ELSE cfg.authorized_users # <<>> /\ InList(cfg.authorized_users, who.user)

\* _extract_user_id of an argument without brackets or parentheses
ExtractUserId(raw) == Strip(raw)

\* context.save_config(): it returns, the context has no such method, or it raises
SaveOutcomes == {"saved", "attribute_error", "error"}

\* mcsm_auth (op), the whole handler
McsmAuth(p, raw, save) ==
    /\ p # 0
    /\ Free(p)
    /\ LET user_id == ExtractUserId(raw)
           h == [Fresh(p) EXCEPT !.cmd = "op", !.identifiers = <<user_id>>]
       IN IF ~ IsDigit(user_id)
          THEN /\ hs' = [hs EXCEPT ![p] = [Did(h, <<Emit(Msg("op_invalid"))>>) EXCEPT !.pc = "done"]]
               /\ UNCHANGED config
          ELSE IF InList(config.authorized_users, user_id)
          THEN /\ hs' = [hs EXCEPT ![p] = [Did(h, <<Emit(Msg("op_already"))>>) EXCEPT !.pc = "done"]]
               /\ UNCHANGED config
          ELSE /\ config' = [config EXCEPT !.authorized_users = Append(@, user_id)]
               /\ hs' = [hs EXCEPT ![p] =
                    [Did(h, <<Emit([kind |-> IF save = "error" THEN "op_save_failed" ELSE "op_ok",
                                    user |-> user_id])>>) EXCEPT !.pc = "done"]]
    /\ UNCHANGED <<instance_data, cooldowns, now, panel, lastBuild, lastSuccess>>

\* mcsm_unauth (deop), the whole handler
McsmUnauth(p, raw, save) ==
    /\ p # 0
    /\ Free(p)
    /\ LET user_id == ExtractUserId(raw)
           h == [Fresh(p) EXCEPT !.cmd = "deop", !.identifiers = <<user_id>>]
       IN IF ~ IsDigit(user_id)
          THEN /\ hs' = [hs EXCEPT ![p] = [Did(h, <<Emit(Msg("deop_invalid"))>>) EXCEPT !.pc = "done"]]
               /\ UNCHANGED config
          ELSE IF ~ InList(config.authorized_users, user_id)
          THEN /\ hs' = [hs EXCEPT ![p] = [Did(h, <<Emit(Msg("deop_not_authorized"))>>) EXCEPT !.pc = "done"]]
               /\ UNCHANGED config
          ELSE /\ config' = [config EXCEPT !.authorized_users = RemoveFirst(@, user_id)]
               /\ hs' = [hs EXCEPT ![p] =
                    [Did(h, <<Emit([kind |-> IF save = "error" THEN "deop_save_failed" ELSE "deop_ok",
                                    user |-> user_id])>>) EXCEPT !.pc = "done"]]
    /\ UNCHANGED <<instance_data, cooldowns, now, panel, lastBuild, lastSuccess>>

GuardedCommands == {"status", "list", "start", "stop", "cmd", "log"}

\* a status or list command that asks the panel first and checks the requester after
DeniedAfterOverview(p, who, cmd) ==
    /\ p # 0
    /\ Free(p)
    /\ ~ IsAdminOrAuthorized(config, who)
    /\ hs' = [hs EXCEPT ![p] =
                [Did([Fresh(p) EXCEPT !.cmd = cmd],
                     IF cmd \in {"status", "list"}
                     THEN <<Request("/overview", <<>>), Emit([kind |-> "denied", who |-> who])>>
                     ELSE <<Emit([kind |-> "denied", who |-> who])>>)
                   EXCEPT !.pc = "done"]]
    /\ UNCHANGED <<instance_data, cooldowns, now, config, panel, lastBuild, lastSuccess>>

\* the head of mcsm_status, mcsm_list, mcsm_start, mcsm_stop, mcsm_cmd and
\* mcsm_log for a requester the permission check turns away
Denied(p, who, cmd) ==
    /\ p # 0
    /\ Free(p)
    /\ ~ IsAdminOrAuthorized(config, who)
    /\ hs' = [hs EXCEPT ![p] =
                [Did([Fresh(p) EXCEPT !.cmd = cmd], <<Emit([kind |-> "denied", who |-> who])>>)
                   EXCEPT !.pc = "done"]]
    /\ UNCHANGED <<instance_data, cooldowns, now, config, panel, lastBuild, lastSuccess>>

\* some requester passes the permission check
Permitted == \E who \in Requesters : IsAdminOrAuthorized(config, who)

AuthUserLists == {<<>>, <<IdSeven>>, <<IdSeven, IdEight>>, <<IdSeven, IdSeven>>}

InitAuth ==
    /\ config \in {AuthConfig(users, groups) : users \in AuthUserLists, groups \in {<<>>, <<"g">>}}
    /\ panel \in OpsPanels
    /\ instance_data = RefreshedDirectory(config, panel)
    /\ cooldowns = EmptyMap
    /\ now = StartTime
    /\ hs = (1 :> IdleH)
    /\ lastBuild = [NoBuild EXCEPT !.done = TRUE]
    /\ lastSuccess = EmptyMap

NextAuth ==
    \/ \E raw \in UserIds \cup {IdX}, save \in SaveOutcomes : McsmAuth(1, raw, save)
    \/ \E raw \in UserIds \cup {IdX}, save \in SaveOutcomes : McsmUnauth(1, raw, save)
    \/ \E who \in Requesters, cmd \in GuardedCommands : Denied(1, who, cmd)
    \/ Permitted /\ Status(1)
    \/ \E shape \in StatusShapes : StatusResponse(1, shape)
    \/ Permitted /\ ListStart(1)
    \/ ListOverviewRequest(1)
    \/ \E r \in {"error", "ok"} : OverviewResponse(1, r)
    \/ \E ok \in BOOLEAN : NodeResponse(1, ok)
    \/ \E op \in {"start", "stop"} : Permitted /\ StartStop(1, op, <<IdOne>>)
    \/ SingleRequest(1)
    \/ \E resp \in Responses : SingleResponse(1, resp)
    \/ \E hasText \in BOOLEAN : Permitted /\ Cmd(1, IdOne, hasText)
    \/ CmdRequest(1)
    \/ \E resp \in Responses : CmdResponse(1, resp)
    \/ CmdWake(1)
    \/ \E r \in LogResponses : CmdLogResponse(1, r)
    \/ Permitted /\ Log(1, IdOne)
    \/ LogRequest(1)
    \/ \E r \in LogResponses : LogResponse(1, r)
    \/ Return(1)
    \/ now < StartTime + 1 /\ Tick

SpecAuth == InitAuth /\ [][NextAuth]_vars

\* a step in which an op or deop answered with success for user u
AuthSuccess(kind, u) ==
    \E p \in DOMAIN hs :
        /\ hs'[p] # hs[p]
        /\ \E k \in 1..Len(hs'[p].step) :
              LET ev == hs'[p].step[k] IN
              ev.e = "emit" /\ ev.msg.kind = kind /\ ev.msg.user = u

\* C30: after a successful deop of u, a requester u who is no administrator
\* and is in no authorised group is turned away by the permission check of
\* the commands, whatever the two lists hold; after a successful op of u, u
\* passes it.
C30_DeopDenies ==
    [][\A u \in UserIds, who \in Requesters :
          who.user = u =>
            /\ (/\ AuthSuccess("deop_ok", u)
                /\ ~ who.admin
                /\ ~ InList(config'.authorized_groups, who.group))
                  => ~ IsAdminOrAuthorized(config', who)
            /\ AuthSuccess("op_ok", u) => IsAdminOrAuthorized(config', who)]_vars

\* handler p told its requester in this step that permission is denied
DenialBy(p) ==
    /\ hs'[p] # hs[p]
    /\ \E k \in 1..Len(hs'[p].step) :
          hs'[p].step[k].e = "emit" /\ hs'[p].step[k].msg.kind = "denied"

\* C33: a status, list, start, stop, cmd or log command whose requester the
\* permission check denies sends no panel request and leaves the directory,
\* the cooldowns and the configuration as they were; all it does is emit one
\* permission-denied message to a requester the check does deny, and end.
C33_DeniedNoEffect ==
    [][\A p \in DOMAIN hs :
          DenialBy(p) =>
              /\ hs'[p].cmd \in GuardedCommands
              /\ Len(hs'[p].trace) = 1
              /\ hs'[p].trace[1].e = "emit" /\ hs'[p].trace[1].msg.kind = "denied"
              /\ ~ IsAdminOrAuthorized(config, hs'[p].trace[1].msg.who)
              /\ hs'[p].pc = "done"
              /\ instance_data' = instance_data
              /\ cooldowns' = cooldowns
              /\ config' = config
              /\ lastSuccess' = lastSuccess]_vars

\* a list command of a user outside a non-empty authorised list was turned
\* away while the directory holds records and a cooldown is running
C33_Witness ==
    /\ hs[1].pc = "done" /\ hs[1].cmd = "list"
    /\ Len(hs[1].trace) = 1
    /\ hs[1].trace[1].e = "emit" /\ hs[1].trace[1].msg.kind = "denied"
    /\ ~ hs[1].trace[1].msg.who.admin
    /\ config.authorized_users # <<>>
    /\ instance_data.instances # <<>>
    /\ cooldowns # EmptyMap

-----------------------------------------------------------------------------
(* The two copies of the rebuild: the refresh task runs first, then list    *)
(* commands, against a panel whose instances carry a status of their own,   *)
(* a number or a JSON array.                                                *)

EquivStatuses == {3, EmptyArray}
EquivPlacements == {Absent} \cup [node : Nodes, name : {NameAl, Name2}, status : EquivStatuses]
EquivConfigs == {c \in Configs : c.filtered_instance_keywords = <<>>}

InitEquiv ==
    /\ instance_data = EmptyDirectory
    /\ cooldowns = EmptyMap
    /\ now = StartTime
    /\ config \in EquivConfigs
    /\ panel \in [1..MaxInst -> EquivPlacements]
    /\ hs = (0 :> [IdleH EXCEPT !.pc = "start", !.cmd = "refresh"]) @@ (1 :> IdleH)
    /\ lastBuild = NoBuild
    /\ lastSuccess = EmptyMap

NextEquiv ==
    \/ BgOverviewRequest
    \/ \E p \in DOMAIN hs : hs[0].pc = "done" /\ ListStart(p)
    \/ \E p \in DOMAIN hs : ListOverviewRequest(p)
    \/ \E p \in DOMAIN hs, r \in {"error", "empty", "ok"} : OverviewResponse(p, r)
    \/ \E p \in DOMAIN hs, ok \in BOOLEAN : NodeResponse(p, ok)
    \/ \E p \in DOMAIN hs : Return(p)

SpecEquiv == InitEquiv /\ [][NextEquiv]_vars

Heard(h) == SelectSeq(h.trace, IsResponse)

\* the list command p, the first command after the refresh task, ends in this
\* step having heard the answers the refresh task had heard
ListEndsLikeRefresh(p) ==
    /\ hs[0].pc = "done"
    /\ hs[p].cmd = "list" /\ hs[p].n = 1
    /\ hs[p].pc \in {"ov_wait", "node_wait"}
    /\ hs'[p].pc \in {"done", "crashed"}
    /\ Heard(hs'[p]) = Heard(hs[0])

\* C32: a list command that hears the answers the refresh task heard, under
\* the same configuration, leaves the directory (records, name_to_id,
\* uuid_to_id, ambiguous_names) as the refresh task left it and has sent the
\* same panel requests in the same order.
C32_SameEffect ==
    [][\A p \in DOMAIN hs \ {0} :
          ListEndsLikeRefresh(p) =>
              /\ instance_data' = instance_data
              /\ Requests(hs'[p]) = Requests(hs[0])]_vars

=============================================================================
